---- MODULE Spec2Model ----
(***************************************************************************)
(* Lurelands game server (services/spacetime-server/src/lib.rs): the       *)
(* inventory ledger, the buy/sell transactions, the quest state machine    *)
(* and the hand-written JSON reader/writer they rest on.                   *)
(*                                                                         *)
(* Each reducer is an operator from a database value (a record of tables)  *)
(* and the call's arguments to the database after the call; an action      *)
(* applies one reducer to the current tables and commits the result.       *)
(* Tables are sequences of rows in scan order (insertion order), except    *)
(* the tables read only through their primary key, which are functions     *)
(* from the keys present to the row.                                       *)
(*                                                                         *)
(* Text (item ids, quest documents) is TLA+ strings, read and written      *)
(* character by character as the code does.                                *)
(*                                                                         *)
(* Integer width.  The model checker's integers are 32-bit signed, so the  *)
(* full range of a Rust u32 cannot be written down.  u32 fields live in    *)
(* 0..U32_MAX for a narrower U32_MAX and wrap modulo U32_MAX + 1 exactly   *)
(* where the Rust arithmetic wraps modulo 2^32; every program constant     *)
(* (prices, stack sizes, rewards) fits below it unchanged.  u64 counters   *)
(* never come near their limit within the bounds and are plain naturals.   *)
(***************************************************************************)
EXTENDS Integers, Sequences, FiniteSets, TLC

(***************************************************************************)
(* Bounds of the model                                                     *)
(***************************************************************************)
\* largest value of a u32 field in the model (stands for u32::MAX)
U32_MAX == 1048575
\* number of reducer calls in a behaviour of the inventory ledger
MaxLedgerCalls == 4
\* number of reducer calls in a behaviour of the shop
MaxTradeCalls == 3
\* number of reducer calls in a behaviour of the quest board
MaxQuestCalls == 4
\* number of reducer calls in a behaviour of the daily quests
MaxDailyCalls == 6

None == <<>>
Some(x) == <<x>>
IsSome(o) == o # <<>>
Unwrap(o) == o[1]

(***************************************************************************)
(* Text primitives (Rust str methods used by the code)                     *)
(***************************************************************************)
Drop(s, n) == SubSeq(s, n + 1, Len(s))
Take(s, n) == SubSeq(s, 1, n)
CharAt(s, i) == SubSeq(s, i, i)

StartsWith(s, pat) == Len(s) >= Len(pat) /\ Take(s, Len(pat)) = pat
EndsWith(s, pat) == Len(s) >= Len(pat) /\ Drop(s, Len(s) - Len(pat)) = pat

\* the least member of a non-empty set of offsets
First(offsets) == CHOOSE i \in offsets : \A j \in offsets : i <= j

\* str::find(pat): the 0-based offset of the first occurrence, None if none
Find(s, pat) ==
    LET hits == {i \in 0..(Len(s) - Len(pat)) : SubSeq(s, i + 1, i + Len(pat)) = pat}
    IN IF hits = {} THEN None ELSE Some(First(hits))
Contains(s, pat) == IsSome(Find(s, pat))

Digits == "0123456789"
IsAsciiDigit(c) == Len(c) = 1 /\ Contains(Digits, c)
DigitValue(c) == Unwrap(Find(Digits, c))
IsWhitespace(c) == c \in {" ", "\t", "\n", "\r"}

\* str::find(|c| !c.is_ascii_digit())
FindNonDigit(s) ==
    LET hits == {i \in 0..(Len(s) - 1) : ~IsAsciiDigit(CharAt(s, i + 1))}
    IN IF hits = {} THEN None ELSE Some(First(hits))

\* str::find(|c| c == a || c == b)
FindEither(s, a, b) ==
    LET hits == {i \in 0..(Len(s) - 1) : CharAt(s, i + 1) \in {a, b}}
    IN IF hits = {} THEN None ELSE Some(First(hits))

TrimStart(s) ==
    LET kept == {i \in 0..(Len(s) - 1) : ~IsWhitespace(CharAt(s, i + 1))}
    IN IF kept = {} THEN "" ELSE Drop(s, First(kept))

TrimEnd(s) ==
    LET kept == {i \in 1..Len(s) : ~IsWhitespace(CharAt(s, i))}
    IN IF kept = {} THEN "" ELSE Take(s, CHOOSE i \in kept : \A j \in kept : j <= i)

Trim(s) == TrimEnd(TrimStart(s))

RECURSIVE TrimMatches(_, _)
\* str::trim_matches(c): strips every leading and trailing c
TrimMatches(s, c) ==
    IF Len(s) > 0 /\ CharAt(s, 1) = c THEN TrimMatches(Drop(s, 1), c)
    ELSE IF Len(s) > 0 /\ CharAt(s, Len(s)) = c THEN TrimMatches(Take(s, Len(s) - 1), c)
    ELSE s

RECURSIVE Split(_, _)
\* str::split(c) collected: the pieces between occurrences of the character c
Split(s, c) ==
    LET p == Find(s, c)
    IN IF IsSome(p) THEN <<Take(s, Unwrap(p))>> \o Split(Drop(s, Unwrap(p) + 1), c)
       ELSE <<s>>

RECURSIVE DigitsValue(_, _)
\* value of a run of digits, None once it exceeds max
DigitsValue(s, max) ==
    IF Len(s) = 0 THEN Some(0)
    ELSE LET hi == DigitsValue(Take(s, Len(s) - 1), max)
             d == DigitValue(CharAt(s, Len(s)))
         IN IF ~IsSome(hi) THEN None
            ELSE IF Unwrap(hi) > (max - d) \div 10 THEN None
            ELSE Some(Unwrap(hi) * 10 + d)

\* str::parse::<uN>(): an optional '+', then one or more digits, in range
ParseUnsigned(s, max) ==
    LET body == IF StartsWith(s, "+") THEN Drop(s, 1) ELSE s
    IN IF Len(body) = 0 THEN None
       ELSE IF IsSome(FindNonDigit(body)) THEN None
       ELSE DigitsValue(body, max)

RECURSIVE FormatNumber(_)
\* Display of an unsigned integer
FormatNumber(n) ==
    IF n < 10 THEN CharAt(Digits, n + 1)
    ELSE FormatNumber(n \div 10) \o CharAt(Digits, (n % 10) + 1)

(***************************************************************************)
(* Item stacking and pricing rules                                         *)
(***************************************************************************)
MAX_FISH_STACK_SIZE == 5
MAX_POLE_STACK_SIZE == 1

is_pole_item(item_id) == StartsWith(item_id, "pole_")

is_fish_item(item_id) == StartsWith(item_id, "fish_")

get_max_stack_size(item_id) ==
    IF is_pole_item(item_id) THEN MAX_POLE_STACK_SIZE
    ELSE IF is_fish_item(item_id) THEN MAX_FISH_STACK_SIZE
    ELSE U32_MAX

get_item_base_sell_price(item_id) ==
    CASE item_id = "fish_pond_1" -> 10
      [] item_id = "fish_pond_2" -> 25
      [] item_id = "fish_pond_3" -> 50
      [] item_id = "fish_pond_4" -> 150
      [] item_id = "fish_river_1" -> 12
      [] item_id = "fish_river_2" -> 30
      [] item_id = "fish_river_3" -> 60
      [] item_id = "fish_river_4" -> 180
      [] item_id = "fish_ocean_1" -> 15
      [] item_id = "fish_ocean_2" -> 40
      [] item_id = "fish_ocean_3" -> 80
      [] item_id = "fish_ocean_4" -> 250
      [] item_id = "fish_night_1" -> 20
      [] item_id = "fish_night_2" -> 45
      [] item_id = "fish_night_3" -> 90
      [] item_id = "fish_night_4" -> 300
      [] item_id = "pole_1" -> 0
      [] item_id = "pole_2" -> 200
      [] item_id = "pole_3" -> 500
      [] item_id = "pole_4" -> 1500
      [] item_id = "lure_1" -> 10
      [] item_id = "lure_2" -> 30
      [] item_id = "lure_3" -> 80
      [] item_id = "lure_4" -> 250
      [] OTHER -> 5

get_item_buy_price(item_id) ==
    CASE item_id = "pole_1" -> 0
      [] item_id = "pole_2" -> 200
      [] item_id = "pole_3" -> 500
      [] item_id = "pole_4" -> 1500
      [] item_id = "lure_1" -> 20
      [] item_id = "lure_2" -> 60
      [] item_id = "lure_3" -> 160
      [] item_id = "lure_4" -> 500
      [] OTHER -> 0

\* a faulty price, to try the multiplier rule against: three stars pay
\* three times the base price
calculate_sell_price_tripled(item_id, rarity) ==
    get_item_base_sell_price(item_id)
        * (CASE rarity = 2 -> 2 [] rarity = 3 -> 3 [] OTHER -> 1)

\* (base_price as f32 * multiplier).round() as u32: the base prices and the
\* multipliers 1.0, 2.0, 4.0 are whole numbers far below 2^24, so the f32
\* product is exact and round() changes nothing.
calculate_sell_price(item_id, rarity) ==
    LET base_price == get_item_base_sell_price(item_id)
        multiplier == CASE rarity \in {0, 1} -> 1
                        [] rarity = 2 -> 2
                        [] rarity = 3 -> 4
                        [] OTHER -> 1
    IN base_price * multiplier

(***************************************************************************)
(* Level system                                                            *)
(***************************************************************************)
XP_PER_FISH_BASE == 10
XP_PER_FISH_TIER == 10
XP_PER_RARITY_STAR == 5
XP_QUEST_BASE == 50
XP_QUEST_STORY_BONUS == 100

RECURSIVE ISqrtBetween(_, _, _)
\* the largest r in lo..hi with r * r <= n
ISqrtBetween(n, lo, hi) ==
    IF lo = hi THEN lo
    ELSE LET mid == (lo + hi + 1) \div 2
         IN IF mid * mid <= n THEN ISqrtBetween(n, mid, hi)
            ELSE ISqrtBetween(n, lo, mid - 1)

\* a faulty threshold, to try the rounding rule against: the root is cut
\* off, not rounded
calculate_xp_for_level_truncated(level) ==
    IF level <= 1 THEN 0
    ELSE ISqrtBetween(10000 * level * level * level, 0,
                      IF level > 21 THEN 46340 ELSE 100 * level * level)

\* (100.0 * level^1.5).round(): 100 * level^1.5 is the square root of
\* 10000 * level^3, rounded to the nearest integer (half away from zero)
calculate_xp_for_level(level) ==
    IF level <= 1 THEN 0
    ELSE LET n == 10000 * level * level * level
             \* the root is below 100 * level^2, and below 46341 for every n
             \* that fits 32 bits, which keeps the squares of the search small
             r == ISqrtBetween(n, 0, IF level > 21 THEN 46340 ELSE 100 * level * level)
         IN IF n - r * r > r THEN r + 1 ELSE r

\* u64 made narrow: the largest value of the tier suffix and of an XP amount
U64_PARSE_MAX == 1000000

WrapU64(n) == n % (U64_PARSE_MAX + 1)

\* the sum of calculate_fish_xp before it is cut to u64
fish_xp_sum(item_id, rarity) ==
    LET parts == Split(item_id, "_")
        parsed == ParseUnsigned(parts[Len(parts)], U64_PARSE_MAX)
        tier == IF IsSome(parsed) THEN Unwrap(parsed) ELSE 1
        stars == IF rarity >= 1 THEN rarity - 1 ELSE 0
    IN XP_PER_FISH_BASE + (tier * XP_PER_FISH_TIER) + (stars * XP_PER_RARITY_STAR)

calculate_fish_xp(item_id, rarity) == WrapU64(fish_xp_sum(item_id, rarity))

(***************************************************************************)
(* State: the tables the reducers read and write                           *)
(***************************************************************************)
VARIABLES
    player,          \* Player rows by primary key id
    inventory,       \* Inventory rows in scan order
    quest,           \* Quest rows by primary key id
    player_quest,    \* PlayerQuest rows in scan order
    player_stats,    \* PlayerStats rows by primary key player_id
    player_session,  \* PlayerSession rows in scan order; the id is the position
    game_event,      \* GameEvent rows, append-only
    fish_catch,      \* FishCatch rows, append-only
    calls,           \* reducer calls made so far; the next call's ctx.timestamp
    overflow_checks, \* the build: TRUE panics on integer overflow, FALSE wraps
    limit,           \* the number of calls the behaviour is followed for
    last             \* the last reducer call: its name, arguments and log line

tables == <<player, inventory, quest, player_quest, player_stats, player_session,
            game_event, fish_catch>>
vars == <<player, inventory, quest, player_quest, player_stats, player_session,
          game_event, fish_catch, calls, overflow_checks, limit, last>>

\* ctx.db as a value, with the overflow flag of the running call
DB ==
    [player |-> player, inventory |-> inventory, quest |-> quest,
     player_quest |-> player_quest, player_stats |-> player_stats,
     player_session |-> player_session, game_event |-> game_event,
     fish_catch |-> fish_catch, timestamp |-> calls, overflowed |-> FALSE]

\* u32 arithmetic of a build without overflow checks
WrapU32(n) == n % (U32_MAX + 1)

Min(a, b) == IF a <= b THEN a ELSE b

\* iter().find over a table scan: the first of the positions whose row
\* passes the test, 0 if there is none
IterFind(hits) ==
    IF hits = {} THEN 0 ELSE CHOOSE k \in hits : \A j \in hits : k <= j

RECURSIVE SumQuantity(_)
SumQuantity(rows) ==
    IF rows = <<>> THEN 0 ELSE Head(rows).quantity + SumQuantity(Tail(rows))

\* a map with key k set to row v (insert or update by primary key)
Put(f, k, v) == [x \in (DOMAIN f) \cup {k} |-> IF x = k THEN v ELSE f[x]]

IsStack(inv, player_id, item_id, rarity) ==
    inv.player_id = player_id /\ inv.item_id = item_id /\ inv.rarity = rarity

\* the units a player owns of an item at a rarity, as a natural number
totalOwned(inv, player_id, item_id, rarity) ==
    LET Matches(row) == IsStack(row, player_id, item_id, rarity)
    IN SumQuantity(SelectSeq(inv, Matches))

(***************************************************************************)
(* Inventory ledger                                                        *)
(***************************************************************************)
\* a faulty first loop, to try the topping-up rule against: it leaves the
\* stacks with spare capacity as they are
fill_no_stack(rows, player_id, item_id, rarity, max_stack, remaining) ==
    [rows |-> rows, remaining |-> remaining]

RECURSIVE fill_existing_stacks(_, _, _, _, _, _)
\* add_to_inventory's first loop; yields the table and what remains to add
fill_existing_stacks(rows, player_id, item_id, rarity, max_stack, remaining) ==
    LET HasSpace(inv) ==
            IsStack(inv, player_id, item_id, rarity) /\ inv.quantity < max_stack
        k == IterFind({j \in 1..Len(rows) : HasSpace(rows[j])})
    IN IF remaining > 0 /\ k # 0
       THEN LET space_available == max_stack - rows[k].quantity
                to_add == Min(remaining, space_available)
            IN fill_existing_stacks(
                   [rows EXCEPT ![k].quantity = @ + to_add],
                   player_id, item_id, rarity, max_stack, remaining - to_add)
       ELSE [rows |-> rows, remaining |-> remaining]

RECURSIVE create_halved_stacks(_, _, _, _, _, _)
\* a faulty second loop, to try the one-partial-stack rule against: a new
\* stack takes at most half of what remains, rounded up
create_halved_stacks(rows, player_id, item_id, rarity, max_stack, remaining) ==
    IF remaining > 0
    THEN LET stack_size == Min((remaining + 1) \div 2, max_stack)
         IN create_halved_stacks(
                Append(rows, [player_id |-> player_id, item_id |-> item_id,
                              rarity |-> rarity, quantity |-> stack_size]),
                player_id, item_id, rarity, max_stack, remaining - stack_size)
    ELSE rows

RECURSIVE create_new_stacks(_, _, _, _, _, _)
\* add_to_inventory's second loop
create_new_stacks(rows, player_id, item_id, rarity, max_stack, remaining) ==
    IF remaining > 0
    THEN LET stack_size == Min(remaining, max_stack)
         IN create_new_stacks(
                Append(rows, [player_id |-> player_id, item_id |-> item_id,
                              rarity |-> rarity, quantity |-> stack_size]),
                player_id, item_id, rarity, max_stack, remaining - stack_size)
    ELSE rows

add_to_inventory(d, player_id, item_id, rarity, quantity) ==
    LET max_stack == get_max_stack_size(item_id)
        filled == fill_existing_stacks(d.inventory, player_id, item_id, rarity,
                                       max_stack, quantity)
        rows == create_new_stacks(filled.rows, player_id, item_id, rarity,
                                  max_stack, filled.remaining)
    IN [db |-> [d EXCEPT !.inventory = rows],
        log |-> IF quantity = 0 THEN "" ELSE "Added to inventory"]

RECURSIVE remove_keeping_emptied_stacks(_, _, _, _, _, _)
\* a faulty removal loop, to try the stack-size invariant against: it compares
\* with < and so keeps a wholly consumed stack, at quantity 0
remove_keeping_emptied_stacks(rows, k, player_id, item_id, rarity, remaining) ==
    IF k > Len(rows) THEN <<>>
    ELSE IF remaining > 0 /\ IsStack(rows[k], player_id, item_id, rarity)
    THEN LET stack == rows[k]
             to_remove == Min(remaining, stack.quantity)
             kept == IF stack.quantity < to_remove THEN <<>>
                     ELSE <<[stack EXCEPT !.quantity = @ - to_remove]>>
         IN kept \o remove_keeping_emptied_stacks(rows, k + 1, player_id, item_id,
                                                  rarity, remaining - to_remove)
    ELSE <<rows[k]>> \o remove_keeping_emptied_stacks(rows, k + 1, player_id, item_id,
                                                      rarity, remaining)

RECURSIVE remove_across_stacks(_, _, _, _, _, _)
\* the loop over the matching stacks collected before any change: a stack
\* no larger than what is still to remove is deleted, a larger one reduced
remove_across_stacks(rows, k, player_id, item_id, rarity, remaining) ==
    IF k > Len(rows) THEN <<>>
    ELSE IF remaining > 0 /\ IsStack(rows[k], player_id, item_id, rarity)
    THEN LET stack == rows[k]
             to_remove == Min(remaining, stack.quantity)
             kept == IF stack.quantity <= to_remove THEN <<>>
                     ELSE <<[stack EXCEPT !.quantity = @ - to_remove]>>
         IN kept \o remove_across_stacks(rows, k + 1, player_id, item_id, rarity,
                                         remaining - to_remove)
    ELSE <<rows[k]>> \o remove_across_stacks(rows, k + 1, player_id, item_id, rarity,
                                             remaining)

\* a faulty remove_from_inventory, to try the rejection rule against: it
\* skips the comparison with the total owned and removes what there is
remove_without_total_check(d, player_id, item_id, rarity, quantity) ==
    LET Matches(inv) == IsStack(inv, player_id, item_id, rarity)
        matching_stacks == SelectSeq(d.inventory, Matches)
    IN IF quantity = 0 THEN [db |-> d, log |-> ""]
       ELSE IF matching_stacks = <<>>
       THEN [db |-> d, log |-> "No inventory stack found"]
       ELSE [db |-> [d EXCEPT !.inventory = remove_across_stacks(
                                   d.inventory, 1, player_id, item_id, rarity, quantity)],
             log |-> "Successfully removed"]

remove_from_inventory(d, player_id, item_id, rarity, quantity) ==
    LET Matches(inv) == IsStack(inv, player_id, item_id, rarity)
        matching_stacks == SelectSeq(d.inventory, Matches)
        sum == SumQuantity(matching_stacks)
        total_owned == WrapU32(sum)
    IN IF quantity = 0 THEN [db |-> d, log |-> ""]
       ELSE IF matching_stacks = <<>>
       THEN [db |-> d, log |-> "No inventory stack found"]
       ELSE IF total_owned < quantity
       THEN [db |-> [d EXCEPT !.overflowed = @ \/ sum > U32_MAX],
             log |-> "only has fewer but tried to remove"]
       ELSE [db |-> [d EXCEPT !.inventory = remove_across_stacks(
                                   d.inventory, 1, player_id, item_id, rarity, quantity),
                               !.overflowed = @ \/ sum > U32_MAX],
             log |-> "Successfully removed"]

(***************************************************************************)
(* Sessions, events and statistics                                         *)
(***************************************************************************)
get_active_session_id(d, player_id) ==
    LET Active(sess) == sess.player_id = player_id /\ sess.is_active
        k == IterFind({j \in 1..Len(d.player_session) : Active(d.player_session[j])})
    IN IF k = 0 THEN None ELSE Some(k)

log_event_internal(d, player_id, event_type, item_id, quantity, gold_amount, rarity, water_body_id, metadata) ==
    [d EXCEPT !.game_event = Append(@,
        [player_id |-> player_id,
         session_id |-> get_active_session_id(d, player_id),
         event_type |-> event_type, item_id |-> item_id, quantity |-> quantity,
         gold_amount |-> gold_amount, rarity |-> rarity,
         water_body_id |-> water_body_id, metadata |-> metadata,
         created_at |-> d.timestamp])]

\* a faulty close, to try the one-active-session rule against: the session is
\* stamped but stays active
close_session_left_active(sess, timestamp) ==
    [sess EXCEPT !.ended_at = Some(timestamp),
                 !.duration_seconds = timestamp - sess.started_at]

\* timestamps count whole seconds, so the division by 1_000_000 is already made
close_session(sess, timestamp) ==
    [sess EXCEPT !.ended_at = Some(timestamp),
                 !.duration_seconds = timestamp - sess.started_at,
                 !.is_active = FALSE]

\* a faulty start_session, to try the session count against: a player who
\* already has a stats row gets the session but not the count
start_session_uncounted(d, player_id) ==
    LET closed == [k \in 1..Len(d.player_session) |->
                      IF d.player_session[k].player_id = player_id
                         /\ d.player_session[k].is_active
                      THEN close_session(d.player_session[k], d.timestamp)
                      ELSE d.player_session[k]]
        session == [player_id |-> player_id, started_at |-> d.timestamp,
                    ended_at |-> None, duration_seconds |-> 0, is_active |-> TRUE]
        stats == IF player_id \in DOMAIN d.player_stats
                 THEN [d.player_stats[player_id] EXCEPT !.last_seen_at = d.timestamp]
                 ELSE [total_playtime_seconds |-> 0, total_sessions |-> 1,
                       total_fish_caught |-> 0, total_gold_earned |-> 0,
                       total_gold_spent |-> 0, first_seen_at |-> d.timestamp,
                       last_seen_at |-> d.timestamp, level |-> 1, xp |-> 0,
                       xp_to_next_level |-> calculate_xp_for_level(2)]
        d1 == [d EXCEPT !.player_session = Append(closed, session),
                        !.player_stats = Put(@, player_id, stats)]
    IN log_event_internal(d1, player_id, "session_started", None, None, None, None,
                          None, None)

start_session(d, player_id) ==
    LET closed == [k \in 1..Len(d.player_session) |->
                      IF d.player_session[k].player_id = player_id
                         /\ d.player_session[k].is_active
                      THEN close_session(d.player_session[k], d.timestamp)
                      ELSE d.player_session[k]]
        session == [player_id |-> player_id, started_at |-> d.timestamp,
                    ended_at |-> None, duration_seconds |-> 0, is_active |-> TRUE]
        stats == IF player_id \in DOMAIN d.player_stats
                 THEN [d.player_stats[player_id] EXCEPT !.total_sessions = @ + 1,
                                                         !.last_seen_at = d.timestamp]
                 ELSE [total_playtime_seconds |-> 0, total_sessions |-> 1,
                       total_fish_caught |-> 0, total_gold_earned |-> 0,
                       total_gold_spent |-> 0, first_seen_at |-> d.timestamp,
                       last_seen_at |-> d.timestamp, level |-> 1, xp |-> 0,
                       xp_to_next_level |-> calculate_xp_for_level(2)]
        d1 == [d EXCEPT !.player_session = Append(closed, session),
                        !.player_stats = Put(@, player_id, stats)]
    IN log_event_internal(d1, player_id, "session_started", None, None, None, None,
                          None, None)

end_session(d, player_id) ==
    LET Active(sess) == sess.player_id = player_id /\ sess.is_active
        k == IterFind({j \in 1..Len(d.player_session) : Active(d.player_session[j])})
        session == close_session(d.player_session[k], d.timestamp)
        session_duration == session.duration_seconds
        d1 == [d EXCEPT !.player_session[k] = session]
        d2 == IF player_id \in DOMAIN d.player_stats
              THEN [d1 EXCEPT !.player_stats[player_id].total_playtime_seconds =
                                   @ + session_duration,
                              !.player_stats[player_id].last_seen_at = d.timestamp]
              ELSE d1
    IN IF k = 0 THEN d
       ELSE log_event_internal(d2, player_id, "session_ended", None, None, None, None,
                None, Some("{\"duration_seconds\":" \o FormatNumber(session_duration) \o "}"))

\* the spawn points the init reducer inserts, in scan order, as <<x, y>>
SpawnPoints ==
    <<(<<400, 300>>), (<<1700, 300>>), (<<1000, 1000>>), (<<400, 1700>>),
      (<<1700, 1700>>)>>

\* the sum of the bytes of a player id
ByteSum(player_id) ==
    CASE player_id = "p1" -> 112 + 49
      [] player_id = "p2" -> 112 + 50
      [] OTHER -> 0

\* the spawn point picked for a new player by the hash of the id
spawn_position(player_id) ==
    SpawnPoints[(ByteSum(player_id) % Len(SpawnPoints)) + 1]

\* a faulty join_world, to try the kept-player rule against: a returning
\* player is given a fresh row
join_world_as_a_stranger(d, player_id, name, color) ==
    [db |-> start_session(
               [d EXCEPT !.player = Put(@, player_id,
                   [name |-> name, x |-> spawn_position(player_id)[1],
                    y |-> spawn_position(player_id)[2], color |-> color,
                    is_online |-> TRUE, gold |-> 0,
                    equipped_pole_id |-> None, last_updated |-> d.timestamp])],
               player_id),
     log |-> "joined the world"]

\* the facing angle and the casting fields take no part in any rule and
\* are left out of the Player row
join_world(d, player_id, name, color) ==
    IF player_id \in DOMAIN d.player
    THEN [db |-> start_session(
                    [d EXCEPT !.player[player_id].is_online = TRUE,
                              !.player[player_id].last_updated = d.timestamp],
                    player_id),
          log |-> "reconnecting"]
    ELSE [db |-> start_session(
                    [d EXCEPT !.player = Put(@, player_id,
                        [name |-> name, x |-> spawn_position(player_id)[1],
                         y |-> spawn_position(player_id)[2], color |-> color,
                         is_online |-> TRUE, gold |-> 0,
                         equipped_pole_id |-> None, last_updated |-> d.timestamp])],
                    player_id),
          log |-> "joined the world"]

leave_world(d, player_id) ==
    IF player_id \in DOMAIN d.player
    THEN [db |-> end_session(
                    [d EXCEPT !.player[player_id].is_online = FALSE,
                              !.player[player_id].last_updated = d.timestamp],
                    player_id),
          log |-> "left the world"]
    ELSE [db |-> d, log |-> ""]

update_position(d, player_id, x, y) ==
    IF player_id \in DOMAIN d.player
    THEN [db |-> [d EXCEPT !.player[player_id].x = x,
                           !.player[player_id].y = y,
                           !.player[player_id].last_updated = d.timestamp],
          log |-> ""]
    ELSE [db |-> d, log |-> ""]

\* the default colour 0xFFE74C3C, cut to the width of the narrow u32
update_player_name(d, player_id, name) ==
    IF player_id \in DOMAIN d.player
    THEN [db |-> [d EXCEPT !.player[player_id].name = name,
                           !.player[player_id].last_updated = d.timestamp],
          log |-> "updated name"]
    ELSE [db |-> [d EXCEPT !.player = Put(@, player_id,
                     [name |-> name, x |-> spawn_position(player_id)[1],
                      y |-> spawn_position(player_id)[2],
                      color |-> 478268,
                      is_online |-> FALSE, gold |-> 0,
                      equipped_pole_id |-> None, last_updated |-> d.timestamp])],
          log |-> "created with name"]

(***************************************************************************)
(* Gold                                                                    *)
(***************************************************************************)
add_gold(d, player_id, amount) ==
    IF player_id \in DOMAIN d.player
    THEN LET sum == d.player[player_id].gold + amount
             d1 == [d EXCEPT !.player[player_id].gold = WrapU32(sum),
                             !.player[player_id].last_updated = d.timestamp,
                             !.overflowed = @ \/ sum > U32_MAX]
         IN [db |-> IF player_id \in DOMAIN d.player_stats
                    THEN [d1 EXCEPT !.player_stats[player_id].total_gold_earned = @ + amount]
                    ELSE d1,
             log |-> "earned"]
    ELSE [db |-> d, log |-> ""]

set_gold(d, player_id, amount) ==
    IF player_id \in DOMAIN d.player
    THEN [db |-> [d EXCEPT !.player[player_id].gold = amount,
                           !.player[player_id].last_updated = d.timestamp],
          log |-> "gold set"]
    ELSE [db |-> d, log |-> ""]

(***************************************************************************)
(* Selling and buying                                                      *)
(***************************************************************************)
\* a faulty validation, to try the rejection rule of sell_item against: it
\* never compares the quantity with what the player owns
sell_item_refusal_without_owned_check(d, player_id, item_id, rarity, quantity) ==
    LET equipped == is_pole_item(item_id)
                    /\ player_id \in DOMAIN d.player
                    /\ d.player[player_id].equipped_pole_id = Some(item_id)
    IN IF quantity = 0 THEN "tried to sell 0 items"
       ELSE IF equipped THEN "tried to sell equipped pole"
       ELSE ""

\* the validation that opens sell_item: the warning of the check that
\* refuses the call, "" when the call passes
sell_item_refusal(d, player_id, item_id, rarity, quantity) ==
    LET equipped == is_pole_item(item_id)
                    /\ player_id \in DOMAIN d.player
                    /\ d.player[player_id].equipped_pole_id = Some(item_id)
        total_owned == WrapU32(totalOwned(d.inventory, player_id, item_id, rarity))
    IN IF quantity = 0 THEN "tried to sell 0 items"
       ELSE IF equipped THEN "tried to sell equipped pole"
       ELSE IF total_owned < quantity THEN "tried to sell more than owned"
       ELSE ""

sell_item(d, player_id, item_id, rarity, quantity) ==
    LET refusal == sell_item_refusal(d, player_id, item_id, rarity, quantity)
        sum == totalOwned(d.inventory, player_id, item_id, rarity)
        unit_price == calculate_sell_price(item_id, rarity)
        product == unit_price * quantity
        total_gold == WrapU32(product)
        \* remove the items, stack by stack
        d1 == [d EXCEPT !.inventory = remove_across_stacks(
                             d.inventory, 1, player_id, item_id, rarity, quantity),
                        !.overflowed = @ \/ sum > U32_MAX \/ product > U32_MAX]
        \* add gold to the player, if there is one
        credit == d.player[player_id].gold + total_gold
        d2 == IF player_id \in DOMAIN d.player
              THEN [d1 EXCEPT !.player[player_id].gold = WrapU32(credit),
                              !.player[player_id].last_updated = d.timestamp,
                              !.overflowed = @ \/ credit > U32_MAX]
              ELSE d1
        d3 == IF player_id \in DOMAIN d.player /\ player_id \in DOMAIN d.player_stats
              THEN [d2 EXCEPT !.player_stats[player_id].total_gold_earned = @ + total_gold]
              ELSE d2
    IN IF refusal = "tried to sell more than owned"
       THEN [db |-> [d EXCEPT !.overflowed = @ \/ sum > U32_MAX], log |-> refusal]
       ELSE IF refusal # "" THEN [db |-> d, log |-> refusal]
       ELSE [db |-> log_event_internal(d3, player_id, "item_sold", Some(item_id),
                        Some(quantity), Some(total_gold), Some(rarity), None, None),
             log |-> "sold"]

\* a faulty validation, to try the rejection rule of buy_item against: it
\* never compares the price with the gold held
buy_item_refusal_without_gold_check(d, player_id, item_id) ==
    LET price == get_item_buy_price(item_id)
    IN IF price = 0 /\ item_id # "pole_1" THEN "tried to buy non-purchasable item"
       ELSE IF player_id \notin DOMAIN d.player THEN "not found for buy_item"
       ELSE ""

\* the validation that opens buy_item: the warning of the check that refuses
\* the call, "" when the call passes
buy_item_refusal(d, player_id, item_id) ==
    LET price == get_item_buy_price(item_id)
    IN IF price = 0 /\ item_id # "pole_1" THEN "tried to buy non-purchasable item"
       ELSE IF player_id \notin DOMAIN d.player THEN "not found for buy_item"
       ELSE IF d.player[player_id].gold < price THEN "cannot afford"
       ELSE ""

\* a faulty buy_item, to try the capacity rule against: it grows the first
\* matching stack whether or not the stack is full
buy_item_growing_full_stacks(d, player_id, item_id) ==
    LET refusal == buy_item_refusal(d, player_id, item_id)
        price == get_item_buy_price(item_id)
        max_stack == get_max_stack_size(item_id)
        d1 == [d EXCEPT !.player[player_id].gold = @ - price,
                        !.player[player_id].last_updated = d.timestamp]
        d2 == IF price > 0 /\ player_id \in DOMAIN d.player_stats
              THEN [d1 EXCEPT !.player_stats[player_id].total_gold_spent = @ + price]
              ELSE d1
        Same(inv) == IsStack(inv, player_id, item_id, 0)
        k == IterFind({j \in 1..Len(d.inventory) : Same(d.inventory[j])})
        new_stack == [player_id |-> player_id, item_id |-> item_id, rarity |-> 0,
                      quantity |-> 1]
        d3 == IF max_stack = 1 THEN [d2 EXCEPT !.inventory = Append(@, new_stack)]
              ELSE IF k # 0 THEN [d2 EXCEPT !.inventory[k].quantity = @ + 1]
              ELSE [d2 EXCEPT !.inventory = Append(@, new_stack)]
    IN IF refusal # "" THEN [db |-> d, log |-> refusal]
       ELSE [db |-> log_event_internal(d3, player_id, "item_bought", Some(item_id),
                        Some(1), Some(price), Some(0), None, None),
             log |-> "bought"]

buy_item(d, player_id, item_id) ==
    LET refusal == buy_item_refusal(d, player_id, item_id)
        price == get_item_buy_price(item_id)
        max_stack == get_max_stack_size(item_id)
        d1 == [d EXCEPT !.player[player_id].gold = @ - price,
                        !.player[player_id].last_updated = d.timestamp]
        d2 == IF price > 0 /\ player_id \in DOMAIN d.player_stats
              THEN [d1 EXCEPT !.player_stats[player_id].total_gold_spent = @ + price]
              ELSE d1
        HasSpace(inv) == IsStack(inv, player_id, item_id, 0) /\ inv.quantity < max_stack
        k == IterFind({j \in 1..Len(d.inventory) : HasSpace(d.inventory[j])})
        new_stack == [player_id |-> player_id, item_id |-> item_id, rarity |-> 0,
                      quantity |-> 1]
        d3 == IF max_stack = 1 THEN [d2 EXCEPT !.inventory = Append(@, new_stack)]
              ELSE IF k # 0 THEN [d2 EXCEPT !.inventory[k].quantity = @ + 1]
              ELSE [d2 EXCEPT !.inventory = Append(@, new_stack)]
    IN IF refusal # "" THEN [db |-> d, log |-> refusal]
       ELSE [db |-> log_event_internal(d3, player_id, "item_bought", Some(item_id),
                        Some(1), Some(price), Some(0), None, None),
             log |-> "bought"]

equip_pole(d, player_id, pole_item_id) ==
    LET Owned(inv) == inv.player_id = player_id /\ inv.item_id = pole_item_id
        has_pole == (\E j \in 1..Len(d.inventory) : Owned(d.inventory[j]))
        d1 == [d EXCEPT !.player[player_id].equipped_pole_id = Some(pole_item_id),
                        !.player[player_id].last_updated = d.timestamp]
    IN IF ~has_pole THEN [db |-> d, log |-> "tried to equip pole but doesn't own it"]
       ELSE IF player_id \in DOMAIN d.player
       THEN [db |-> log_event_internal(d1, player_id, "pole_equipped",
                        Some(pole_item_id), None, None, None, None, None),
             log |-> "equipped pole"]
       ELSE [db |-> d, log |-> ""]

unequip_pole(d, player_id) ==
    LET pole_id == d.player[player_id].equipped_pole_id
        d1 == IF IsSome(pole_id)
              THEN log_event_internal(d, player_id, "pole_unequipped", pole_id,
                                      None, None, None, None, None)
              ELSE d
    IN IF player_id \in DOMAIN d.player
       THEN [db |-> [d1 EXCEPT !.player[player_id].equipped_pole_id = None,
                               !.player[player_id].last_updated = d.timestamp],
             log |-> IF IsSome(pole_id) THEN "unequipped pole" ELSE ""]
       ELSE [db |-> d, log |-> ""]

(***************************************************************************)
(* Quest documents: the hand-written JSON reader and writer                *)
(***************************************************************************)
SearchKey(key) == "\"" \o key \o "\""

\* the run of digits after the first occurrence of "key" and the next colon
extract_json_number(json, key) ==
    LET search_key == SearchKey(key)
        key_pos == Find(json, search_key)
        after_key == Drop(json, Unwrap(key_pos) + Len(search_key))
        colon_pos == Find(after_key, ":")
        after_colon == TrimStart(Drop(after_key, Unwrap(colon_pos) + 1))
        found == FindNonDigit(after_colon)
        num_end == IF IsSome(found) THEN Unwrap(found) ELSE Len(after_colon)
    IN IF ~IsSome(key_pos) THEN None
       ELSE IF ~IsSome(colon_pos) THEN None
       ELSE IF num_end > 0 THEN ParseUnsigned(Take(after_colon, num_end), U32_MAX)
       ELSE None

get_progress_count(progress_json, key) ==
    LET n == extract_json_number(progress_json, key)
    IN IF IsSome(n) THEN Unwrap(n) ELSE 0

set_progress_count(progress_json, key, value) ==
    LET search_key == SearchKey(key)
        key_pos == Find(progress_json, search_key)
        before == Take(progress_json, Unwrap(key_pos))
        after_key == Drop(progress_json, Unwrap(key_pos) + Len(search_key))
        colon_pos == Find(after_key, ":")
        after_colon == Drop(after_key, Unwrap(colon_pos) + 1)
        trimmed == TrimStart(after_colon)
        found == FindNonDigit(trimmed)
        num_end == IF IsSome(found) THEN Unwrap(found) ELSE Len(trimmed)
        whitespace_len == Len(after_colon) - Len(trimmed)
        rest == Drop(after_colon, whitespace_len + num_end)
    IN IF IsSome(key_pos) /\ IsSome(colon_pos)
       THEN before \o search_key \o ":" \o FormatNumber(value) \o rest
       ELSE IF progress_json = "{}"
       THEN "{" \o search_key \o ":" \o FormatNumber(value) \o "}"
       ELSE IF EndsWith(progress_json, "}")
       THEN Take(progress_json, Len(progress_json) - 1) \o "," \o search_key \o ":"
            \o FormatNumber(value) \o "}"
       ELSE progress_json

\* a faulty loop, to try the requirements rule against: the fish counts are
\* not looked at
fish_counts_ignored(parts, k, progress_json) == TRUE

RECURSIVE fish_counts_met(_, _, _)
\* the loop over the comma-separated parts of the "fish" object
fish_counts_met(parts, k, progress_json) ==
    IF k > Len(parts) THEN TRUE
    ELSE LET part == Trim(parts[k])
             colon_pos == Find(part, ":")
             fish_id == TrimMatches(Trim(Take(part, Unwrap(colon_pos))), "\"")
             parsed == ParseUnsigned(Trim(Drop(part, Unwrap(colon_pos) + 1)), U32_MAX)
             required_count == IF IsSome(parsed) THEN Unwrap(parsed) ELSE 0
             progress_count == get_progress_count(progress_json, fish_id)
         IN IF part = "" \/ ~IsSome(colon_pos)
            THEN fish_counts_met(parts, k + 1, progress_json)
            ELSE IF progress_count < required_count THEN FALSE
            ELSE fish_counts_met(parts, k + 1, progress_json)

validate_quest_requirements(requirements_json, progress_json) ==
    LET fish_start == Find(requirements_json, SearchKey("fish"))
        obj_start == Find(Drop(requirements_json, Unwrap(fish_start)), "{")
        remaining == Drop(requirements_json, Unwrap(fish_start) + Unwrap(obj_start))
        obj_end == Find(remaining, "}")
        fish_obj == SubSeq(remaining, 2, Unwrap(obj_end))
        fish_ok == IF IsSome(fish_start)
                   THEN IF IsSome(obj_start)
                        THEN IF IsSome(obj_end)
                             THEN fish_counts_met(Split(fish_obj, ","), 1, progress_json)
                             ELSE TRUE
                        ELSE TRUE
                   ELSE TRUE
        total_req == extract_json_number(requirements_json, "total_fish")
        min_rarity == extract_json_number(requirements_json, "min_rarity")
    IN IF ~fish_ok THEN FALSE
       ELSE IF IsSome(total_req)
               /\ get_progress_count(progress_json, "total") < Unwrap(total_req)
       THEN FALSE
       ELSE IF IsSome(min_rarity)
               /\ get_progress_count(progress_json, "max_rarity") < Unwrap(min_rarity)
       THEN FALSE
       ELSE TRUE

\* the pair (item_id, quantity) read from one {...} block of the items array
parse_item_reward(item_json) ==
    LET id_start == Find(item_json, "\"item_id\"")
        after_key == Drop(item_json, Unwrap(id_start) + 9)
        colon_pos == Find(after_key, ":")
        after_colon == TrimStart(Drop(after_key, Unwrap(colon_pos) + 1))
        end_quote == Find(Drop(after_colon, 1), "\"")
        item_id == IF ~IsSome(id_start) THEN None
                   ELSE IF ~IsSome(colon_pos) THEN None
                   ELSE IF ~StartsWith(after_colon, "\"") THEN None
                   ELSE IF ~IsSome(end_quote) THEN None
                   ELSE Some(SubSeq(after_colon, 2, Unwrap(end_quote) + 1))
        qty == extract_json_number(item_json, "quantity")
    IN [item_id |-> item_id, quantity |-> IF IsSome(qty) THEN Unwrap(qty) ELSE 1]

RECURSIVE grant_items(_, _, _, _, _, _)
\* the scan of the items array from the 0-based position from: depth is the
\* brace depth, item_start the position of the open block's first brace.
\* Characters other than braces change nothing, so the scan goes from brace
\* to brace.
grant_items(rows, player_id, items_content, from, depth, item_start) ==
    LET brace == FindEither(Drop(items_content, from), "{", "}")
        i == from + Unwrap(brace)
        c == CharAt(items_content, i + 1)
        item_obj == SubSeq(items_content, Unwrap(item_start) + 1, i + 1)
        reward == parse_item_reward(item_obj)
        item_id == Unwrap(reward.item_id)
        inv == [player_id |-> player_id, item_id |-> item_id, rarity |-> 0,
                quantity |-> Min(reward.quantity, get_max_stack_size(item_id))]
    IN IF ~IsSome(brace) THEN rows
       ELSE IF c = "{"
       THEN grant_items(rows, player_id, items_content, i + 1, depth + 1,
                        IF depth = 0 THEN Some(i) ELSE item_start)
       ELSE IF depth - 1 = 0
       THEN grant_items(IF IsSome(item_start) /\ IsSome(reward.item_id)
                        THEN Append(rows, inv) ELSE rows,
                        player_id, items_content, i + 1, 0, None)
       ELSE grant_items(rows, player_id, items_content, i + 1, depth - 1, item_start)

grant_quest_rewards(d, player_id, rewards_json) ==
    LET gold_amount == extract_json_number(rewards_json, "gold")
        sum == d.player[player_id].gold + Unwrap(gold_amount)
        d1 == IF IsSome(gold_amount) /\ player_id \in DOMAIN d.player
              THEN [d EXCEPT !.player[player_id].gold = WrapU32(sum),
                             !.player[player_id].last_updated = d.timestamp,
                             !.overflowed = @ \/ sum > U32_MAX]
              ELSE d
        items_start == Find(rewards_json, SearchKey("items"))
        arr_start == Find(Drop(rewards_json, Unwrap(items_start)), "[")
        remaining == Drop(rewards_json, Unwrap(items_start) + Unwrap(arr_start))
        arr_end == Find(remaining, "]")
        items_content == SubSeq(remaining, 2, Unwrap(arr_end))
    IN IF ~IsSome(items_start) THEN d1
       ELSE IF ~IsSome(arr_start) THEN d1
       ELSE IF ~IsSome(arr_end) THEN d1
       ELSE [d1 EXCEPT !.inventory =
                grant_items(@, player_id, items_content, 0, 0, None)]

(***************************************************************************)
(* Experience, catches and quest progress                                  *)
(***************************************************************************)
RECURSIVE level_up_past_threshold(_)
\* a faulty loop, to try the level rule against: a level is gained only
\* when the XP exceeds the threshold
level_up_past_threshold(stats) ==
    IF stats.xp > stats.xp_to_next_level /\ stats.xp_to_next_level > 0
    THEN level_up_past_threshold(
             [stats EXCEPT !.xp = @ - stats.xp_to_next_level,
                           !.level = @ + 1,
                           !.xp_to_next_level = calculate_xp_for_level(stats.level + 2)])
    ELSE stats

RECURSIVE level_up_for_free(_)
\* a faulty loop, to try the termination argument against: a level is
\* gained for half of its threshold
level_up_for_free(stats) ==
    IF stats.xp >= stats.xp_to_next_level /\ stats.xp_to_next_level > 0
    THEN level_up_for_free(
             [stats EXCEPT !.xp = @ - (stats.xp_to_next_level \div 2),
                           !.level = @ + 1,
                           !.xp_to_next_level = calculate_xp_for_level(stats.level + 2)])
    ELSE stats

RECURSIVE level_up(_)
\* the while loop of add_xp_internal
level_up(stats) ==
    IF stats.xp >= stats.xp_to_next_level /\ stats.xp_to_next_level > 0
    THEN level_up([stats EXCEPT !.xp = @ - stats.xp_to_next_level,
                                !.level = @ + 1,
                                !.xp_to_next_level = calculate_xp_for_level(stats.level + 2)])
    ELSE stats

add_xp_internal(d, player_id, xp_amount) ==
    IF player_id \in DOMAIN d.player_stats
    THEN LET stats == d.player_stats[player_id]
             started == IF stats.level = 0
                        THEN [stats EXCEPT !.level = 1,
                                           !.xp_to_next_level = calculate_xp_for_level(2)]
                        ELSE stats
         IN [d EXCEPT !.player_stats[player_id] =
                          level_up([started EXCEPT !.xp = WrapU64(@ + xp_amount)]),
                      !.overflowed = @ \/ started.xp + xp_amount > U64_PARSE_MAX]
    ELSE d

update_quest_progress_for_fish(d, player_id, item_id, rarity) ==
    LET Updated(player_quest_row) ==
            LET p0 == player_quest_row.progress
                p1 == set_progress_count(p0, item_id, get_progress_count(p0, item_id) + 1)
                p2 == set_progress_count(p1, "total", get_progress_count(p1, "total") + 1)
                p3 == IF rarity > get_progress_count(p2, "max_rarity")
                      THEN set_progress_count(p2, "max_rarity", rarity)
                      ELSE p2
            IN [player_quest_row EXCEPT !.progress = p3]
    IN [d EXCEPT !.player_quest =
           [k \in 1..Len(@) |->
               IF @[k].player_id = player_id /\ @[k].status = "active"
               THEN Updated(@[k]) ELSE @[k]]]

\* size is a whole number here, which f32's Display prints without a fraction
catch_fish(d, player_id, item_id, fish_type, size, rarity, water_body_id) ==
    LET catch == [fish_id |-> item_id, player_id |-> player_id, fish_type |-> fish_type,
                  size |-> size, rarity |-> FormatNumber(rarity) \o "star",
                  water_body_id |-> water_body_id, released |-> FALSE,
                  caught_at |-> d.timestamp]
        d1 == [d EXCEPT !.fish_catch = Append(@, catch)]
        max_stack == get_max_stack_size(item_id)
        HasSpace(inv) ==
            IsStack(inv, player_id, item_id, rarity) /\ inv.quantity < max_stack
        k == IterFind({j \in 1..Len(d.inventory) : HasSpace(d.inventory[j])})
        d2 == IF k # 0 THEN [d1 EXCEPT !.inventory[k].quantity = @ + 1]
              ELSE [d1 EXCEPT !.inventory = Append(@,
                       [player_id |-> player_id, item_id |-> item_id,
                        rarity |-> rarity, quantity |-> 1])]
        d3 == log_event_internal(d2, player_id, "fish_caught", Some(item_id), Some(1),
                  None, Some(rarity), Some(water_body_id),
                  Some("{\"fish_type\":\"" \o fish_type \o "\",\"size\":"
                       \o FormatNumber(size) \o "}"))
        d4 == IF player_id \in DOMAIN d.player_stats
              THEN [d3 EXCEPT !.player_stats[player_id].total_fish_caught = @ + 1]
              ELSE d3
        xp_gained == calculate_fish_xp(item_id, rarity)
        d5 == add_xp_internal([d4 EXCEPT !.overflowed =
                                   @ \/ fish_xp_sum(item_id, rarity) > U64_PARSE_MAX],
                              player_id, xp_gained)
    IN [db |-> update_quest_progress_for_fish(d5, player_id, item_id, rarity),
        log |-> "caught fish"]

(***************************************************************************)
(* Quest reducers                                                          *)
(***************************************************************************)
\* a faulty delete, to try the one-row-per-quest rule against: the row stays
DeleteNothing(rows, k) == rows

DeleteAt(rows, k) == SubSeq(rows, 1, k - 1) \o SubSeq(rows, k + 1, Len(rows))

\* a faulty prerequisite test, to try the prerequisite rule against: a row
\* of any player counts
prerequisite_completed_by_anyone(rows, player_id, prereq_id) ==
    \E j \in 1..Len(rows) :
        rows[j].quest_id = prereq_id /\ rows[j].status = "completed"

\* the player has a completed row for the prerequisite quest
prerequisite_completed(rows, player_id, prereq_id) ==
    \E j \in 1..Len(rows) :
        /\ rows[j].player_id = player_id
        /\ rows[j].quest_id = prereq_id
        /\ rows[j].status = "completed"

accept_quest(d, player_id, quest_id) ==
    LET q == d.quest[quest_id]
        Mine(pq) == pq.player_id = player_id /\ pq.quest_id = quest_id
        k == IterFind({j \in 1..Len(d.player_quest) : Mine(d.player_quest[j])})
        pq == d.player_quest[k]
        \* a completed daily quest is re-accepted: the old entry is deleted
        d1 == IF k # 0 /\ pq.status = "completed" /\ q.quest_type = "daily"
              THEN [d EXCEPT !.player_quest = DeleteAt(@, k)]
              ELSE d
        prereq_completed == prerequisite_completed(d1.player_quest, player_id,
                                                   Unwrap(q.prerequisite_quest_id))
        player_quest_row == [player_id |-> player_id, quest_id |-> quest_id,
                             status |-> "active", progress |-> "{}",
                             accepted_at |-> Some(d.timestamp), completed_at |-> None]
    IN IF quest_id \notin DOMAIN d.quest
       THEN [db |-> d, log |-> "tried to accept non-existent quest"]
       ELSE IF k # 0 /\ pq.status = "active"
       THEN [db |-> d, log |-> "already has quest active"]
       ELSE IF k # 0 /\ pq.status = "completed" /\ q.quest_type = "story"
       THEN [db |-> d, log |-> "already completed story quest"]
       ELSE IF IsSome(q.prerequisite_quest_id) /\ ~prereq_completed
       THEN [db |-> d1, log |-> "prerequisite not completed"]
       ELSE [db |-> [d1 EXCEPT !.player_quest = Append(@, player_quest_row)],
             log |-> "accepted quest"]

\* a faulty lookup, to try the complete-once rule against: the status of
\* the row is not looked at
any_quest_row(rows, player_id, quest_id) ==
    IterFind({j \in 1..Len(rows) : /\ rows[j].player_id = player_id
                                   /\ rows[j].quest_id = quest_id})

\* position of the player's first active row for the quest, 0 if none
active_quest_row(rows, player_id, quest_id) ==
    IterFind({j \in 1..Len(rows) : /\ rows[j].player_id = player_id
                                   /\ rows[j].quest_id = quest_id
                                   /\ rows[j].status = "active"})

\* a faulty validation, to try the failure rule of complete_quest against:
\* it never compares the progress with the requirements
complete_quest_refusal_without_requirements(d, player_id, quest_id) ==
    LET k == active_quest_row(d.player_quest, player_id, quest_id)
    IN IF k = 0 THEN "has no active quest"
       ELSE IF quest_id \notin DOMAIN d.quest THEN "not found but player had it active"
       ELSE ""

\* the validation that opens complete_quest: the log line of the check that
\* refuses the call, "" when the call passes
complete_quest_refusal(d, player_id, quest_id) ==
    LET k == active_quest_row(d.player_quest, player_id, quest_id)
    IN IF k = 0 THEN "has no active quest"
       ELSE IF quest_id \notin DOMAIN d.quest THEN "not found but player had it active"
       ELSE IF ~validate_quest_requirements(d.quest[quest_id].requirements,
                                            d.player_quest[k].progress)
       THEN "requirements not met"
       ELSE ""

complete_quest(d, player_id, quest_id) ==
    LET refusal == complete_quest_refusal(d, player_id, quest_id)
        k == active_quest_row(d.player_quest, player_id, quest_id)
        q == d.quest[quest_id]
        d1 == [d EXCEPT !.player_quest[k].status = "completed",
                        !.player_quest[k].completed_at = Some(d.timestamp)]
        d2 == grant_quest_rewards(d1, player_id, q.rewards)
        quest_xp == IF q.quest_type = "story" THEN XP_QUEST_BASE + XP_QUEST_STORY_BONUS
                    ELSE XP_QUEST_BASE
        d3 == add_xp_internal(d2, player_id, quest_xp)
    IN IF refusal # "" THEN [db |-> d, log |-> refusal]
       ELSE [db |-> log_event_internal(d3, player_id, "quest_completed", Some(quest_id),
                        None, None, None, None,
                        Some("{\"rewards\":" \o q.rewards \o "}")),
             log |-> "completed quest"]

\* a Quest row; the title, description, storyline and quest giver fields are
\* display data no rule reads
Quest(quest_type, prerequisite_quest_id, requirements, rewards) ==
    [quest_type |-> quest_type, prerequisite_quest_id |-> prerequisite_quest_id,
     requirements |-> requirements, rewards |-> rewards]

admin_create_quest(d, id, quest_type, prerequisite_quest_id, requirements, rewards) ==
    IF id \in DOMAIN d.quest
    THEN [db |-> d, log |-> "already exists"]
    ELSE [db |-> [d EXCEPT !.quest = Put(@, id,
                      Quest(quest_type, prerequisite_quest_id, requirements, rewards))],
          log |-> "Created quest"]

admin_update_quest(d, id, quest_type, prerequisite_quest_id, requirements, rewards) ==
    IF id \in DOMAIN d.quest
    THEN [db |-> [d EXCEPT !.quest[id] =
                      Quest(quest_type, prerequisite_quest_id, requirements, rewards)],
          log |-> "Updated quest"]
    ELSE [db |-> d, log |-> "not found"]

\* a faulty admin_delete_quest, to try the reference rule against: the
\* rows of the players are left behind
admin_delete_quest_alone(d, id) ==
    IF id \in DOMAIN d.quest
    THEN [db |-> [d EXCEPT !.quest = [x \in (DOMAIN @) \ {id} |-> @[x]]],
          log |-> "Deleted quest"]
    ELSE [db |-> d, log |-> "not found"]

admin_delete_quest(d, id) ==
    LET Other(pq) == pq.quest_id # id
    IN IF id \in DOMAIN d.quest
       THEN [db |-> [d EXCEPT !.quest = [x \in (DOMAIN @) \ {id} |-> @[x]],
                              !.player_quest = SelectSeq(@, Other)],
             log |-> "Deleted quest"]
       ELSE [db |-> d, log |-> "not found"]

admin_reset_quest_progress(d, quest_id) ==
    LET Other(pq) == pq.quest_id # quest_id
    IN [db |-> [d EXCEPT !.player_quest = SelectSeq(@, Other)],
        log |-> "Reset progress"]

(***************************************************************************)
(* Initial state: the tables after the init reducer                        *)
(***************************************************************************)

\* the quests init inserts (title, description, storyline and giver left out)
SeededQuests ==
    [id \in {"guild_1", "guild_2", "guild_3", "ocean_1", "ocean_2", "daily_haul"} |->
        CASE id = "guild_1" ->
                Quest("story", None, "{\"total_fish\": 2}", "{\"gold\": 50}")
          [] id = "guild_2" ->
                Quest("story", Some("guild_1"),
                      "{\"fish\": {\"fish_pond_1\": 1, \"fish_pond_2\": 1, \"fish_pond_3\": 1, \"fish_river_1\": 1, \"fish_river_2\": 1}}",
                      "{\"gold\": 100, \"items\": [{\"item_id\": \"pole_2\", \"quantity\": 1}]}")
          [] id = "guild_3" ->
                Quest("story", Some("guild_2"), "{\"min_rarity\": 3}",
                      "{\"gold\": 300, \"items\": [{\"item_id\": \"pole_3\", \"quantity\": 1}]}")
          [] id = "ocean_1" ->
                Quest("story", None,
                      "{\"fish\": {\"fish_ocean_1\": 1, \"fish_ocean_2\": 1, \"fish_ocean_3\": 1}}",
                      "{\"gold\": 75}")
          [] id = "ocean_2" ->
                Quest("story", Some("ocean_1"), "{\"total_fish\": 5, \"min_rarity\": 2}",
                      "{\"gold\": 200, \"items\": [{\"item_id\": \"lure_2\", \"quantity\": 1}]}")
          [] id = "daily_haul" ->
                Quest("daily", None, "{\"total_fish\": 5}", "{\"gold\": 25}")]

\* the arguments of a call, as kept in last; a reducer leaves the ones it
\* does not take at these values
NoCall ==
    [op |-> "", player_id |-> "", item_id |-> "", rarity |-> 0, quantity |-> 0,
     amount |-> 0, quest_id |-> "", log |-> ""]

\* the database the init reducer leaves: the seeded quests, every other
\* table empty
Boot ==
    [player |-> <<>>, inventory |-> <<>>, quest |-> SeededQuests,
     player_quest |-> <<>>, player_stats |-> <<>>, player_session |-> <<>>,
     game_event |-> <<>>, fish_catch |-> <<>>, timestamp |-> 0, overflowed |-> FALSE]

\* a behaviour of max_calls calls starting from the database d
StartFrom(d, max_calls) ==
    /\ player = d.player
    /\ inventory = d.inventory
    /\ quest = d.quest
    /\ player_quest = d.player_quest
    /\ player_stats = d.player_stats
    /\ player_session = d.player_session
    /\ game_event = d.game_event
    /\ fish_catch = d.fish_catch
    /\ calls = 0
    /\ overflow_checks \in BOOLEAN
    /\ limit = max_calls
    /\ last = NoCall

\* One reducer call: the host runs it as a transaction at timestamp calls.
\* A call that panics (an integer overflow in a build that checks for it)
\* is rolled back whole.
Call(args, res) ==
    /\ calls < limit
    /\ calls' = calls + 1
    /\ UNCHANGED <<overflow_checks, limit>>
    /\ IF res.db.overflowed /\ overflow_checks
       THEN /\ UNCHANGED tables
            /\ last' = [args EXCEPT !.log = "panicked"]
       ELSE /\ player' = res.db.player
            /\ inventory' = res.db.inventory
            /\ quest' = res.db.quest
            /\ player_quest' = res.db.player_quest
            /\ player_stats' = res.db.player_stats
            /\ player_session' = res.db.player_session
            /\ game_event' = res.db.game_event
            /\ fish_catch' = res.db.fish_catch
            /\ last' = [args EXCEPT !.log = res.log]

(***************************************************************************)
(* The inventory ledger on its own: add_to_inventory and                   *)
(* remove_from_inventory from the empty inventory                          *)
(***************************************************************************)
\* the (player, item, rarity) keys called with: they differ pairwise in the
\* player, the item (a fish, a pole, an item without stack limit) or the rarity
LedgerKeys ==
    {<<"p1", "fish_pond_1", 1>>, <<"p1", "fish_pond_1", 2>>, <<"p2", "fish_pond_1", 1>>,
     <<"p1", "pole_1", 0>>, <<"p1", "lure_1", 0>>}
\* quantities of a call; the largest u32 only for an item that stacks without limit
LedgerQuantities(item_id) ==
    {0, 3, 7} \cup (IF get_max_stack_size(item_id) = U32_MAX THEN {U32_MAX} ELSE {})

InitLedger == StartFrom(Boot, MaxLedgerCalls)

AddToInventory ==
    \E k \in LedgerKeys : \E q \in LedgerQuantities(k[2]) :
        Call([NoCall EXCEPT !.op = "add_to_inventory", !.player_id = k[1],
                            !.item_id = k[2], !.rarity = k[3], !.quantity = q],
             add_to_inventory(DB, k[1], k[2], k[3], q))

RemoveFromInventory ==
    \E k \in LedgerKeys : \E q \in LedgerQuantities(k[2]) :
        Call([NoCall EXCEPT !.op = "remove_from_inventory", !.player_id = k[1],
                            !.item_id = k[2], !.rarity = k[3], !.quantity = q],
             remove_from_inventory(DB, k[1], k[2], k[3], q))

NextLedger == AddToInventory \/ RemoveFromInventory

SpecLedger == InitLedger /\ [][NextLedger]_vars

C2_RejectedRemoveChangesNothing ==
    [][(/\ last'.op = "remove_from_inventory"
        /\ last'.quantity >
             totalOwned(inventory, last'.player_id, last'.item_id, last'.rarity))
       => UNCHANGED tables]_vars

\* a removal of 7 refused to a player who owns 3
C2_Witness ==
    /\ last.op = "remove_from_inventory"
    /\ last.log = "only has fewer but tried to remove"
    /\ last.quantity = 7
    /\ totalOwned(inventory, last.player_id, last.item_id, last.rarity) = 3

(***************************************************************************)
(* The shop: sell_item and buy_item, with the calls that give a player     *)
(* gold, items and an equipped pole.  Player p1 has joined the world;      *)
(* p2 never has, and calls in its name meet no Player row.                 *)
(***************************************************************************)
InitTrade == StartFrom(join_world(Boot, "p1", "Ann", 1).db, MaxTradeCalls)

Players == {"p1", "p2"}
GoldAmounts == {100, U32_MAX}
\* (player, item, rarity, quantity) of the add_to_inventory calls
TradeStock ==
    {<<"p1", "fish_pond_1", 1, 3>>, <<"p2", "fish_pond_1", 1, 3>>,
     <<"p1", "lure_4", 0, U32_MAX>>}
\* (player, item, rarity) of the sell_item calls and their quantities
TradeKeys ==
    {<<"p1", "fish_pond_1", 1>>, <<"p2", "fish_pond_1", 1>>, <<"p1", "lure_4", 0>>,
     <<"p1", "pole_1", 0>>}
SellQuantities(item_id) ==
    IF is_pole_item(item_id) THEN {0, 1}
    ELSE IF is_fish_item(item_id) THEN {0, 3, 5}
    ELSE {3, U32_MAX}
ShopItems == {"pole_1", "pole_2", "lure_4", "fish_pond_1"}

SetGold ==
    \E p \in Players, amount \in GoldAmounts :
        Call([NoCall EXCEPT !.op = "set_gold", !.player_id = p, !.amount = amount],
             set_gold(DB, p, amount))

StockInventory ==
    \E k \in TradeStock :
        Call([NoCall EXCEPT !.op = "add_to_inventory", !.player_id = k[1],
                            !.item_id = k[2], !.rarity = k[3], !.quantity = k[4]],
             add_to_inventory(DB, k[1], k[2], k[3], k[4]))

SellItem ==
    \E k \in TradeKeys : \E q \in SellQuantities(k[2]) :
        Call([NoCall EXCEPT !.op = "sell_item", !.player_id = k[1],
                            !.item_id = k[2], !.rarity = k[3], !.quantity = q],
             sell_item(DB, k[1], k[2], k[3], q))

BuyItem ==
    \E p \in Players, i \in ShopItems :
        Call([NoCall EXCEPT !.op = "buy_item", !.player_id = p, !.item_id = i],
             buy_item(DB, p, i))

EquipPole ==
    \E p \in Players :
        Call([NoCall EXCEPT !.op = "equip_pole", !.player_id = p, !.item_id = "pole_1"],
             equip_pole(DB, p, "pole_1"))

NextTrade == SetGold \/ StockInventory \/ SellItem \/ BuyItem \/ EquipPole

SpecTrade == InitTrade /\ [][NextTrade]_vars

\* the pole a sale names is the one the player has equipped
Equipped(player_id, item_id) ==
    /\ is_pole_item(item_id)
    /\ player_id \in DOMAIN player
    /\ player[player_id].equipped_pole_id = Some(item_id)

\* the log appended one event of the given type about the given item
AppendedEvent(event_type, player_id, item_id) ==
    /\ Len(game_event') = Len(game_event) + 1
    /\ SubSeq(game_event', 1, Len(game_event)) = game_event
    /\ game_event'[Len(game_event')].event_type = event_type
    /\ game_event'[Len(game_event')].player_id = player_id
    /\ game_event'[Len(game_event')].item_id = Some(item_id)

\* C3: a sell_item call that must be rejected (quantity 0, the item is the
\* pole the player has equipped, or the player owns fewer units of
\* (item_id, rarity) than the quantity) leaves every row of every table as
\* it was: gold, stacks, stats and events.
C3_RejectedSellChangesNothing ==
    [][(/\ last'.op = "sell_item"
        /\ \/ last'.quantity = 0
           \/ Equipped(last'.player_id, last'.item_id)
           \/ totalOwned(inventory, last'.player_id, last'.item_id, last'.rarity)
                < last'.quantity)
       => UNCHANGED tables]_vars

\* a player owning 3 fish_pond_1 of rarity 1 was refused the sale of 5
C3_Witness ==
    /\ last.op = "sell_item"
    /\ last.log = "tried to sell more than owned"
    /\ last.item_id = "fish_pond_1" /\ last.rarity = 1 /\ last.quantity = 5
    /\ totalOwned(inventory, last.player_id, "fish_pond_1", 1) = 3
    /\ last.player_id \in DOMAIN player

\* C4: a sell_item call that passes validation takes exactly quantity units
\* off the player's total of (item_id, rarity), adds exactly
\* sellPrice(item_id, rarity) * quantity to the player's gold and to
\* total_gold_earned, and appends one item_sold event.
C4_SellCreditsPriceTimesQuantity ==
    [][(/\ last'.op = "sell_item"
        /\ last'.quantity > 0
        /\ ~Equipped(last'.player_id, last'.item_id)
        /\ totalOwned(inventory, last'.player_id, last'.item_id, last'.rarity)
             >= last'.quantity)
       => LET p == last'.player_id
              total == calculate_sell_price(last'.item_id, last'.rarity) * last'.quantity
          IN /\ totalOwned(inventory', p, last'.item_id, last'.rarity)
                  = totalOwned(inventory, p, last'.item_id, last'.rarity) - last'.quantity
             /\ p \in DOMAIN player => player'[p].gold = player[p].gold + total
             /\ (p \in DOMAIN player /\ p \in DOMAIN player_stats)
                  => player_stats'[p].total_gold_earned
                       = player_stats[p].total_gold_earned + total
             /\ AppendedEvent("item_sold", p, last'.item_id)]_vars

\* C5: a buy_item call that must be rejected (the item has no buy price and
\* is not pole_1, there is no Player row, or the gold held is below the
\* price) changes no table: gold, inventory, stats and events stay.
C5_RejectedBuyChangesNothing ==
    [][(/\ last'.op = "buy_item"
        /\ \/ get_item_buy_price(last'.item_id) = 0 /\ last'.item_id # "pole_1"
           \/ last'.player_id \notin DOMAIN player
           \/ player[last'.player_id].gold < get_item_buy_price(last'.item_id))
       => UNCHANGED tables]_vars

\* a player holding 100 gold was refused pole_2 and has no pole_2 row
C5_Witness ==
    /\ last.op = "buy_item" /\ last.item_id = "pole_2"
    /\ last.log = "cannot afford"
    /\ last.player_id \in DOMAIN player
    /\ player[last.player_id].gold = 100
    /\ \A k \in 1..Len(inventory) : inventory[k].item_id # "pole_2"

\* C6: a buy_item call that passes validation takes exactly the buy price
\* off the player's gold, the price being no more than the gold held; adds
\* exactly 1 to the player's total of the item at rarity 0, no stack of the
\* item going over its capacity; adds the price to total_gold_spent; and
\* appends one item_bought event.
C6_BuyDebitsPriceAddsOne ==
    [][(/\ last'.op = "buy_item"
        /\ ~(get_item_buy_price(last'.item_id) = 0 /\ last'.item_id # "pole_1")
        /\ last'.player_id \in DOMAIN player
        /\ player[last'.player_id].gold >= get_item_buy_price(last'.item_id))
       => LET p == last'.player_id
              price == get_item_buy_price(last'.item_id)
          IN /\ player'[p].gold = player[p].gold - price
             /\ player'[p].gold >= 0
             /\ totalOwned(inventory', p, last'.item_id, 0)
                  = totalOwned(inventory, p, last'.item_id, 0) + 1
             /\ \A k \in 1..Len(inventory') :
                    inventory'[k].item_id = last'.item_id
                      => inventory'[k].quantity <= get_max_stack_size(last'.item_id)
             /\ p \in DOMAIN player_stats
                  => player_stats'[p].total_gold_spent
                       = player_stats[p].total_gold_spent + price
             /\ AppendedEvent("item_bought", p, last'.item_id)]_vars

\* a lure was bought by a player whose lure stack was full: the unit went to
\* a second stack
C6_Witness ==
    /\ last.op = "buy_item" /\ last.log = "bought" /\ last.item_id = "lure_4"
    /\ \E k \in 1..Len(inventory) :
           /\ IsStack(inventory[k], last.player_id, "lure_4", 0)
           /\ inventory[k].quantity = U32_MAX
    /\ \E k \in 1..Len(inventory) :
           /\ IsStack(inventory[k], last.player_id, "lure_4", 0)
           /\ inventory[k].quantity = 1

(***************************************************************************)
(* The quest board: accept_quest, complete_quest and catch_fish.  Player   *)
(* p1 has joined the world, p2 never has.  Besides the seeded quests the   *)
(* administrator has created two daily quests that ask for nothing: gift,  *)
(* rewarded with gold and items, and bonus, which has gift as its          *)
(* prerequisite.                                                           *)
(***************************************************************************)
GiftRewards ==
    "{\"gold\": 10, \"items\": [{\"item_id\": \"fish_pond_1\", \"quantity\": 7}, {\"item_id\": \"pole_2\"}]}"

QuestBoard ==
    admin_create_quest(
        admin_create_quest(join_world(Boot, "p1", "Ann", 1).db,
                           "gift", "daily", None, "{}", GiftRewards).db,
        "bonus", "daily", Some("gift"), "{}", "{\"gold\": 5}").db

InitQuest == StartFrom(QuestBoard, MaxQuestCalls)

BoardQuests == {"guild_1", "guild_2", "gift", "bonus"}

AcceptQuest ==
    \E p \in Players, q \in BoardQuests :
        Call([NoCall EXCEPT !.op = "accept_quest", !.player_id = p, !.quest_id = q],
             accept_quest(DB, p, q))

CompleteQuest ==
    \E p \in Players, q \in BoardQuests :
        Call([NoCall EXCEPT !.op = "complete_quest", !.player_id = p, !.quest_id = q],
             complete_quest(DB, p, q))

CatchFish ==
    \E p \in Players :
        Call([NoCall EXCEPT !.op = "catch_fish", !.player_id = p,
                            !.item_id = "fish_pond_1", !.rarity = 1],
             catch_fish(DB, p, "fish_pond_1", "Bluegill", 12, 1, "pond_1"))

FillPurse ==
    Call([NoCall EXCEPT !.op = "set_gold", !.player_id = "p1", !.amount = U32_MAX],
         set_gold(DB, "p1", U32_MAX))

NextQuest == AcceptQuest \/ CompleteQuest \/ CatchFish \/ FillPurse

SpecQuest == InitQuest /\ [][NextQuest]_vars

\* the call's timestamp marks the row the call inserted
InsertedQuestRow(row) ==
    /\ row.player_id = last'.player_id
    /\ row.quest_id = last'.quest_id
    /\ row.accepted_at = Some(calls)

\* C7: accept_quest inserts a row for a quest that has a prerequisite only
\* if the same player has, when the call is made, a completed row for the
\* prerequisite quest; the row inserted is active, its progress is exactly
\* {}, accepted_at is set and completed_at is not.
C7_AcceptNeedsCompletedPrerequisite ==
    [][last'.op = "accept_quest"
       => \A k \in 1..Len(player_quest') :
              InsertedQuestRow(player_quest'[k])
                => /\ IsSome(quest[last'.quest_id].prerequisite_quest_id)
                        => \E j \in 1..Len(player_quest) :
                               /\ player_quest[j].player_id = last'.player_id
                               /\ player_quest[j].quest_id =
                                      Unwrap(quest[last'.quest_id].prerequisite_quest_id)
                               /\ player_quest[j].status = "completed"
                   /\ player_quest'[k].status = "active"
                   /\ player_quest'[k].progress = "{}"
                   /\ player_quest'[k].completed_at = None]_vars

\* bonus was accepted by a player who had completed its prerequisite gift
C7_Witness ==
    /\ last.op = "accept_quest" /\ last.quest_id = "bonus"
    /\ last.log = "accepted quest"
    /\ \E k \in 1..Len(player_quest) :
           /\ player_quest[k].player_id = last.player_id
           /\ player_quest[k].quest_id = "bonus"
           /\ player_quest[k].status = "active"
           /\ player_quest[k].progress = "{}"
    /\ \E k \in 1..Len(player_quest) :
           /\ player_quest[k].player_id = last.player_id
           /\ player_quest[k].quest_id = "gift"
           /\ player_quest[k].status = "completed"

\* C9: a complete_quest call that fails (the player has no active row for
\* the quest, the quest definition is missing, or the row's progress does
\* not meet the requirements) changes no table: the row stays active with
\* its progress, gold, inventory and XP stay, no event is appended.
C9_FailedCompleteChangesNothing ==
    [][(/\ last'.op = "complete_quest"
        /\ LET k == active_quest_row(player_quest, last'.player_id, last'.quest_id)
           IN \/ k = 0
              \/ last'.quest_id \notin DOMAIN quest
              \/ ~validate_quest_requirements(quest[last'.quest_id].requirements,
                                              player_quest[k].progress))
       => UNCHANGED tables]_vars

\* guild_1 asks for 2 fish; its completion was refused to a player with 1
C9_Witness ==
    /\ last.op = "complete_quest" /\ last.quest_id = "guild_1"
    /\ last.log = "requirements not met"
    /\ \E k \in 1..Len(player_quest) :
           /\ player_quest[k].player_id = last.player_id
           /\ player_quest[k].quest_id = "guild_1"
           /\ player_quest[k].status = "active"
           /\ player_quest[k].progress = "{\"fish_pond_1\":1,\"total\":1,\"max_rarity\":1}"

\* what the rewards documents of the quests on the board say, read by hand
RewardGold(quest_id) ==
    CASE quest_id = "guild_1" -> 50
      [] quest_id = "guild_2" -> 100
      [] quest_id = "gift" -> 10
      [] quest_id = "bonus" -> 5
RewardItems(quest_id) ==
    CASE quest_id = "guild_2" -> <<[item_id |-> "pole_2", quantity |-> 1]>>
      [] quest_id = "gift" -> <<[item_id |-> "fish_pond_1", quantity |-> 7],
                                [item_id |-> "pole_2", quantity |-> 1]>>
      [] OTHER -> <<>>
QuestXp(quest_id) == IF quest_id \in {"guild_1", "guild_2"} THEN 150 ELSE 50

RECURSIVE XpSpentOnLevels(_)
\* the XP the level-ups up to a level have consumed
XpSpentOnLevels(level) ==
    IF level <= 1 THEN 0
    ELSE calculate_xp_for_level(level) + XpSpentOnLevels(level - 1)
\* all the XP a stats row has been granted
TotalXp(stats) == stats.xp + XpSpentOnLevels(stats.level)

\* C10: a complete_quest call on an active row whose requirements are met
\* sets the row to completed with completed_at set, adds the gold of the
\* rewards document to the player's gold, inserts each reward item with
\* quantity min(quantity, capacity) at rarity 0, and grants 150 XP for a
\* story quest, 50 for a daily quest.
C10_CompleteGrantsRewards ==
    [][(/\ last'.op = "complete_quest"
        /\ last'.quest_id \in DOMAIN quest
        /\ LET k == active_quest_row(player_quest, last'.player_id, last'.quest_id)
           IN /\ k # 0
              /\ validate_quest_requirements(quest[last'.quest_id].requirements,
                                             player_quest[k].progress))
       => LET p == last'.player_id
              q == last'.quest_id
              k == active_quest_row(player_quest, p, q)
              items == RewardItems(q)
          IN /\ player_quest'[k].status = "completed"
             /\ IsSome(player_quest'[k].completed_at)
             /\ p \in DOMAIN player
                  => player'[p].gold = player[p].gold + RewardGold(q)
             /\ inventory' = inventory \o
                  [n \in 1..Len(items) |->
                      [player_id |-> p, item_id |-> items[n].item_id, rarity |-> 0,
                       quantity |-> Min(items[n].quantity,
                                        get_max_stack_size(items[n].item_id))]]
             /\ p \in DOMAIN player_stats
                  => TotalXp(player_stats'[p]) = TotalXp(player_stats[p]) + QuestXp(q)]_vars

(***************************************************************************)
(* The daily quests on their own, followed for more calls: gift and bonus  *)
(* accepted, completed and accepted again.                                 *)
(***************************************************************************)
InitDaily == StartFrom(QuestBoard, MaxDailyCalls)

DailyQuests == {"gift", "bonus"}

AcceptDaily ==
    \E p \in Players, q \in DailyQuests :
        Call([NoCall EXCEPT !.op = "accept_quest", !.player_id = p, !.quest_id = q],
             accept_quest(DB, p, q))

CompleteDaily ==
    \E p \in Players, q \in DailyQuests :
        Call([NoCall EXCEPT !.op = "complete_quest", !.player_id = p, !.quest_id = q],
             complete_quest(DB, p, q))

NextDaily == AcceptDaily \/ CompleteDaily

SpecDaily == InitDaily /\ [][NextDaily]_vars

\* C8: an accept_quest call either inserts the new active row or is
\* rejected before any mutation: when no row is inserted the player_quest
\* table is after the call exactly what it was before, also when the quest
\* is a daily quest whose previous row is completed.
C8_AcceptInsertsOrChangesNothing ==
    [][last'.op = "accept_quest"
       => \/ player_quest' = player_quest
          \/ \E k \in 1..Len(player_quest') :
                 /\ InsertedQuestRow(player_quest'[k])
                 /\ player_quest'[k].status = "active"]_vars

(***************************************************************************)
(* The status of a (player, quest) pair: absent when the player holds no   *)
(* row for the quest, and the status field of the row otherwise.           *)
(***************************************************************************)
QuestStatus(rows, player_id, quest_id) ==
    LET k == IterFind({j \in 1..Len(rows) :
                          /\ rows[j].player_id = player_id
                          /\ rows[j].quest_id = quest_id})
    IN  IF k = 0 THEN "absent" ELSE rows[k].status

\* C11: per (player, quest) the status only moves absent -> active in an
\* accept_quest call and active -> completed in a complete_quest call; a
\* completed row stays completed, except that a daily quest's completed row
\* may be replaced by a new active row within one accept_quest call.
C11_StatusOnlyMovesForward ==
    [][\A p \in Players, q \in DailyQuests :
          LET before == QuestStatus(player_quest, p, q)
              after  == QuestStatus(player_quest', p, q)
          IN  \/ after = before
              \/ /\ before = "absent"
                 /\ after = "active"
                 /\ last'.op = "accept_quest"
              \/ /\ before = "active"
                 /\ after = "completed"
                 /\ last'.op = "complete_quest"
              \/ /\ before = "completed"
                 /\ after = "active"
                 /\ quest[q].quest_type = "daily"
                 /\ last'.op = "accept_quest"]_vars

\* C12: in every state reached by accept_quest, complete_quest and
\* catch_fish calls there is at most one player_quest row per (player_id,
\* quest_id); accepting a completed daily quest again replaces its row.
C12_OneRowPerPlayerAndQuest ==
    \A j, k \in 1..Len(player_quest) :
        /\ player_quest[j].player_id = player_quest[k].player_id
        /\ player_quest[j].quest_id = player_quest[k].quest_id
        => j = k

\* a completed daily quest was accepted again and its row is active
C12_Witness ==
    /\ last.op = "accept_quest"
    /\ last.log = "accepted quest"
    /\ quest[last.quest_id].quest_type = "daily"
    /\ \E e \in 1..Len(game_event) :
           /\ game_event[e].event_type = "quest_completed"
           /\ game_event[e].player_id = last.player_id
           /\ game_event[e].item_id = Some(last.quest_id)
    /\ QuestStatus(player_quest, last.player_id, last.quest_id) = "active"

(***************************************************************************)
(* validate_quest_requirements on its own: a quest whose requirements are  *)
(* one of a family of documents, an active row whose progress is one of a  *)
(* family of documents, and the function applied to the two.               *)
(***************************************************************************)
MaxValidateCalls == 1

\* requirement clauses: the fish sub-object as (item id, count) pairs, the
\* empty sequence and None standing for an absent clause
FishClauses ==
    {<<>>, <<<<"fish_pond_1", 1>>>>, <<<<"fish_pond_1", 2>>, <<"fish_pond_2", 1>>>>}

Requirements ==
    [fish : FishClauses, total_fish : {None, Some(2), Some(5)},
     min_rarity : {None, Some(2)}, compact : BOOLEAN]

\* progress counters: catches per item id, their sum and the best rarity
ProgressCounts ==
    {c \in [{"fish_pond_1", "fish_pond_2", "fish_river_1"} -> 0..3] :
        /\ c["fish_pond_1"] <= 2
        /\ c["fish_pond_2"] <= 1
        /\ c["fish_river_1"] \in {0, 3}}

ProgressTotal(c) == c["fish_pond_1"] + c["fish_pond_2"] + c["fish_river_1"]

Progresses ==
    {g \in [counts : ProgressCounts, max_rarity : 0..3] :
        (g.max_rarity = 0) <=> (ProgressTotal(g.counts) = 0)}

RECURSIVE Join(_, _)
Join(parts, comma) ==
    IF parts = <<>> THEN ""
    ELSE IF Len(parts) = 1 THEN parts[1]
    ELSE parts[1] \o comma \o Join(Tail(parts), comma)

Member(key, value, colon) == SearchKey(key) \o colon \o FormatNumber(value)

\* the requirements document as the seeded quests write it, or without
\* blanks
RenderRequirements(req) ==
    LET colon == IF req.compact THEN ":" ELSE ": "
        comma == IF req.compact THEN "," ELSE ", "
        fish == IF req.fish = <<>> THEN <<>>
                ELSE <<SearchKey("fish") \o colon \o "{"
                       \o Join([n \in 1..Len(req.fish) |->
                                  Member(req.fish[n][1], req.fish[n][2], colon)], comma)
                       \o "}">>
        total == IF IsSome(req.total_fish)
                 THEN <<Member("total_fish", Unwrap(req.total_fish), colon)>> ELSE <<>>
        rarity == IF IsSome(req.min_rarity)
                  THEN <<Member("min_rarity", Unwrap(req.min_rarity), colon)>> ELSE <<>>
    IN "{" \o Join(fish \o total \o rarity, comma) \o "}"

\* the progress document as set_progress_count leaves it: a counter appears
\* once it is positive
RenderProgress(g) ==
    LET Counter(key, value) == IF value > 0 THEN <<Member(key, value, ":")>> ELSE <<>>
    IN "{" \o Join(Counter("fish_pond_1", g.counts["fish_pond_1"])
                   \o Counter("total", ProgressTotal(g.counts))
                   \o Counter("max_rarity", g.max_rarity)
                   \o Counter("fish_pond_2", g.counts["fish_pond_2"])
                   \o Counter("fish_river_1", g.counts["fish_river_1"]), ",") \o "}"

\* the quest probe with the requirements req, held active by p1 with the
\* progress g
Probe(req, g) ==
    LET created == admin_create_quest(Boot, "probe", "story", None,
                                      RenderRequirements(req), "{}").db
        accepted == accept_quest(join_world(created, "p1", "Ann", 1).db, "p1", "probe").db
    IN [accepted EXCEPT !.player_quest[1].progress = RenderProgress(g)]

InitValidate ==
    \E req \in Requirements, g \in Progresses : StartFrom(Probe(req, g), MaxValidateCalls)

ValidateQuestRequirements ==
    \E k \in 1..Len(player_quest) :
        Call([NoCall EXCEPT !.op = "validate_quest_requirements",
                            !.player_id = player_quest[k].player_id,
                            !.quest_id = player_quest[k].quest_id],
             [db |-> DB,
              log |-> IF validate_quest_requirements(
                             quest[player_quest[k].quest_id].requirements,
                             player_quest[k].progress)
                      THEN "met" ELSE "not met"])

NextValidate == ValidateQuestRequirements

SpecValidate == InitValidate /\ [][NextValidate]_vars

\* what the clauses of req ask of the counters g
RequirementsMet(req, g) ==
    /\ \A n \in 1..Len(req.fish) : req.fish[n][2] <= g.counts[req.fish[n][1]]
    /\ IsSome(req.total_fish) => Unwrap(req.total_fish) <= ProgressTotal(g.counts)
    /\ IsSome(req.min_rarity) => Unwrap(req.min_rarity) <= g.max_rarity

\* C13: validate_quest_requirements(requirements, progress) is true exactly
\* when every clause present in the requirements holds of the progress:
\* each fish count is at most the progress count of the same key, total_fish
\* is at most total and min_rarity is at most max_rarity; an absent clause
\* asks nothing and a missing progress counter counts as 0.
C13_ValidateIffClausesHold ==
    last.op = "validate_quest_requirements"
    => \A req \in Requirements :
           quest["probe"].requirements = RenderRequirements(req)
           => \A g \in Progresses :
                  player_quest[1].progress = RenderProgress(g)
                  => ((last.log = "met") <=> RequirementsMet(req, g))

\* the requirements {"total_fish":5} against the progress {} were found unmet
C13_Witness ==
    /\ last.op = "validate_quest_requirements"
    /\ quest["probe"].requirements = "{\"total_fish\":5}"
    /\ player_quest[1].progress = "{}"
    /\ last.log = "not met"

(***************************************************************************)
(* Catches of any item id: fish, a pole, an id that is also the name of a  *)
(* progress counter and an id whose tier suffix is large; by the player    *)
(* who joined and by one who never did, with guild_1 accepted or not.      *)
(***************************************************************************)
MaxCatchCalls == 4

\* (item id, rarity) pairs
CatchInputs ==
    {<<"fish_pond_1", 1>>, <<"fish_pond_1", 2>>, <<"total", 1>>, <<"pole_1", 0>>,
     <<"fish_100000", 1>>}

InitCatch == StartFrom(QuestBoard, MaxCatchCalls)

AcceptGuild ==
    \E p \in Players :
        Call([NoCall EXCEPT !.op = "accept_quest", !.player_id = p, !.quest_id = "guild_1"],
             accept_quest(DB, p, "guild_1"))

CatchAny ==
    \E p \in Players, c \in CatchInputs :
        Call([NoCall EXCEPT !.op = "catch_fish", !.player_id = p, !.item_id = c[1],
                            !.rarity = c[2], !.quantity = 1],
             catch_fish(DB, p, c[1], "Bluegill", 12, c[2], "pond_1"))

CompleteGuild ==
    \E p \in Players :
        Call([NoCall EXCEPT !.op = "complete_quest", !.player_id = p,
                            !.quest_id = "guild_1"],
             complete_quest(DB, p, "guild_1"))

NextCatch == AcceptGuild \/ CatchAny \/ CompleteGuild

SpecCatch == InitCatch /\ [][NextCatch]_vars

\* the catches the player made after the row was accepted
CatchesSince(row) ==
    {j \in 1..Len(fish_catch) :
        /\ fish_catch[j].player_id = row.player_id
        /\ fish_catch[j].caught_at > Unwrap(row.accepted_at)}

\* C14: for an active quest row the progress counter total equals the
\* number of catch_fish calls the player made since the row was accepted,
\* whatever item ids were caught.
C14_TotalCountsCatchesSinceAccept ==
    \A k \in 1..Len(player_quest) :
        player_quest[k].status = "active"
        => get_progress_count(player_quest[k].progress, "total")
               = Cardinality(CatchesSince(player_quest[k]))

(***************************************************************************)
(* Every entry point that touches inventory or the equipped pole, around   *)
(* pole_2: p1 can afford one, and the daily quest hollow rewards a pole_2  *)
(* in quantity 0.                                                          *)
(***************************************************************************)
MaxGearCalls == 4

HollowRewards == "{\"items\": [{\"item_id\": \"pole_2\", \"quantity\": 0}]}"

GearBoard ==
    set_gold(admin_create_quest(QuestBoard, "hollow", "daily", None, "{}",
                                HollowRewards).db,
             "p1", 200).db

InitGear == StartFrom(GearBoard, MaxGearCalls)

AcceptHollow ==
    \E p \in Players :
        Call([NoCall EXCEPT !.op = "accept_quest", !.player_id = p, !.quest_id = "hollow"],
             accept_quest(DB, p, "hollow"))

CompleteHollow ==
    \E p \in Players :
        Call([NoCall EXCEPT !.op = "complete_quest", !.player_id = p,
                            !.quest_id = "hollow"],
             complete_quest(DB, p, "hollow"))

AddPole ==
    \E p \in Players :
        Call([NoCall EXCEPT !.op = "add_to_inventory", !.player_id = p,
                            !.item_id = "pole_2", !.quantity = 1],
             add_to_inventory(DB, p, "pole_2", 0, 1))

RemovePole ==
    \E p \in Players :
        Call([NoCall EXCEPT !.op = "remove_from_inventory", !.player_id = p,
                            !.item_id = "pole_2", !.quantity = 1],
             remove_from_inventory(DB, p, "pole_2", 0, 1))

BuyPole ==
    \E p \in Players :
        Call([NoCall EXCEPT !.op = "buy_item", !.player_id = p, !.item_id = "pole_2"],
             buy_item(DB, p, "pole_2"))

SellPole ==
    \E p \in Players :
        Call([NoCall EXCEPT !.op = "sell_item", !.player_id = p,
                            !.item_id = "pole_2", !.quantity = 1],
             sell_item(DB, p, "pole_2", 0, 1))

EquipSecondPole ==
    \E p \in Players :
        Call([NoCall EXCEPT !.op = "equip_pole", !.player_id = p, !.item_id = "pole_2"],
             equip_pole(DB, p, "pole_2"))

UnequipPole ==
    \E p \in Players :
        Call([NoCall EXCEPT !.op = "unequip_pole", !.player_id = p],
             unequip_pole(DB, p))

NextGear ==
    \/ AcceptHollow \/ CompleteHollow \/ CatchFish
    \/ AddPole \/ RemovePole \/ BuyPole \/ SellPole
    \/ EquipSecondPole \/ UnequipPole

SpecGear == InitGear /\ [][NextGear]_vars

\* C15: in every state reached through the entry points that touch
\* inventory (catch_fish, add_to_inventory, remove_from_inventory, buy_item,
\* sell_item, the rewards of complete_quest) every inventory row has
\* 1 <= quantity <= capacity(item_id).
C15_QuantityBetweenOneAndCapacity ==
    \A k \in 1..Len(inventory) :
        /\ 1 <= inventory[k].quantity
        /\ inventory[k].quantity <= get_max_stack_size(inventory[k].item_id)

\* the units a player owns of an item, summed over all rarities
ownedOfItem(inv, player_id, item_id) ==
    LET Matches(row) == row.player_id = player_id /\ row.item_id = item_id
    IN SumQuantity(SelectSeq(inv, Matches))

\* C16: in every reachable state a player whose equipped_pole_id is set
\* owns at least one unit of that item; no sequence of equip_pole,
\* unequip_pole, sell_item, remove_from_inventory, buy_item and
\* add_to_inventory calls leaves an equipped pole that is not owned.
C16_EquippedPoleIsOwned ==
    \A p \in DOMAIN player :
        IsSome(player[p].equipped_pole_id)
        => ownedOfItem(inventory, p, Unwrap(player[p].equipped_pole_id)) > 0

\* C17: equip_pole changes something only when the player owns more than 0
\* units of the pole, summed over all rarities; otherwise no row changes and
\* no event is appended. unequip_pole always leaves equipped_pole_id unset.
C17_EquipOnlyWhenOwned ==
    [][/\ last'.op = "equip_pole"
          /\ ownedOfItem(inventory, last'.player_id, last'.item_id) = 0
          => UNCHANGED tables
       /\ last'.op = "unequip_pole" /\ last'.player_id \in DOMAIN player'
          => player'[last'.player_id].equipped_pole_id = None]_vars

(***************************************************************************)
(* Sessions: two players join, leave, and start and end sessions directly, *)
(* in any order, from the empty database.                                  *)
(***************************************************************************)
MaxSessionCalls == 4

InitSession == StartFrom(Boot, MaxSessionCalls)

JoinWorld ==
    \E p \in Players :
        Call([NoCall EXCEPT !.op = "join_world", !.player_id = p],
             join_world(DB, p, "Ann", 1))

LeaveWorld ==
    \E p \in Players :
        Call([NoCall EXCEPT !.op = "leave_world", !.player_id = p],
             leave_world(DB, p))

StartSession ==
    \E p \in Players :
        Call([NoCall EXCEPT !.op = "start_session", !.player_id = p],
             [db |-> start_session(DB, p), log |-> ""])

EndSession ==
    \E p \in Players :
        Call([NoCall EXCEPT !.op = "end_session", !.player_id = p],
             [db |-> end_session(DB, p), log |-> ""])

NextSession == JoinWorld \/ LeaveWorld \/ StartSession \/ EndSession

SpecSession == InitSession /\ [][NextSession]_vars

\* C18: in every state reached by join_world, leave_world, start_session
\* and end_session calls each player has at most one player_session row
\* with is_active true; start_session closes the active sessions of the
\* player before it inserts the new one.
C18_AtMostOneActiveSession ==
    \A j, k \in 1..Len(player_session) :
        /\ player_session[j].player_id = player_session[k].player_id
        /\ player_session[j].is_active
        /\ player_session[k].is_active
        => j = k

\* a start_session call found a session of the player active, closed it at
\* its own timestamp and inserted the new active one
C18_Witness ==
    /\ last.op = "start_session"
    /\ \E j, k \in 1..Len(player_session) :
           /\ j < k
           /\ player_session[j].player_id = last.player_id
           /\ player_session[k].player_id = last.player_id
           /\ ~player_session[j].is_active
           /\ player_session[j].ended_at = Some(player_session[k].started_at)
           /\ player_session[k].is_active

(***************************************************************************)
(* Experience: p1 with the stats row start_session creates, p2 with a row  *)
(* from before the level system, whose level and threshold are the column  *)
(* defaults 0; XP comes from add_xp, catches and completed quests.         *)
(***************************************************************************)
MaxXpCalls == 3

add_xp(d, player_id, amount) ==
    [db |-> add_xp_internal(d, player_id, amount), log |-> ""]

LegacyBoard ==
    LET joined == join_world(QuestBoard, "p2", "Bob", 2).db
    IN [joined EXCEPT !.player_stats["p2"].level = 0,
                      !.player_stats["p2"].xp_to_next_level = 0]

InitXp == StartFrom(LegacyBoard, MaxXpCalls)

\* nothing, the first threshold exactly, a few levels, and the largest u64,
\* which crosses many levels and overflows the XP of a row that has some
XpAmounts == {0, 283, 1000, U64_PARSE_MAX}

AddXp ==
    \E p \in Players, amount \in XpAmounts :
        Call([NoCall EXCEPT !.op = "add_xp", !.player_id = p, !.amount = amount],
             add_xp(DB, p, amount))

NextXp == AddXp \/ CatchFish \/ AcceptDaily \/ CompleteDaily

SpecXp == InitXp /\ [][NextXp]_vars

\* the call granted XP: add_xp and catch_fish always do, complete_quest when
\* it completes the quest
GrantedXp(call) ==
    /\ call.log # "panicked"
    /\ \/ call.op \in {"add_xp", "catch_fish"}
       \/ call.op = "complete_quest" /\ call.log = "completed quest"

\* C19: after every XP grant (add_xp, catch_fish, complete_quest) to a
\* player that has a player_stats row, the row has level >= 1 and
\* xp < xp_to_next_level, and xp_to_next_level is the XP for level + 1; also
\* when the row started with level 0 and threshold 0, and when the grant
\* crosses several levels.
C19_LevelResolvedAfterGrant ==
    [][GrantedXp(last') /\ last'.player_id \in DOMAIN player_stats
       => LET stats == player_stats'[last'.player_id]
          IN /\ stats.level >= 1
             /\ stats.xp < stats.xp_to_next_level
             /\ stats.xp_to_next_level = calculate_xp_for_level(stats.level + 1)]_vars

\* the first call grants the largest amount to the row that started with
\* level 0 and threshold 0, and takes it across fifty-five levels
C19_Witness ==
    /\ calls = 1
    /\ last.op = "add_xp"
    /\ last.player_id = "p2"
    /\ last.amount = U64_PARSE_MAX
    /\ player_stats["p2"].level = 56

\* the first stack of the key that is not full, 0 when there is none
NonFullStack(inv, player_id, item_id, rarity) ==
    IterFind({j \in 1..Len(inv) :
                 /\ IsStack(inv[j], player_id, item_id, rarity)
                 /\ inv[j].quantity < get_max_stack_size(item_id)})

\* C20: catch_fish cannot be rejected: for any player id, known or not, any
\* item id and any rarity, a call appends exactly one fish_catch row and
\* exactly one fish_caught event and raises totalOwned(player, item_id,
\* rarity) by exactly 1, by topping up a matching stack that is not full if
\* there is one and by creating a stack of quantity 1 otherwise.
C20_CatchAlwaysLands ==
    [][last'.op = "catch_fish"
       => LET p == last'.player_id
              i == last'.item_id
              r == last'.rarity
              k == NonFullStack(inventory, p, i, r)
          IN /\ Len(fish_catch') = Len(fish_catch) + 1
             /\ SubSeq(fish_catch', 1, Len(fish_catch)) = fish_catch
             /\ fish_catch'[Len(fish_catch')].player_id = p
             /\ fish_catch'[Len(fish_catch')].fish_id = i
             /\ AppendedEvent("fish_caught", p, i)
             /\ totalOwned(inventory', p, i, r) = totalOwned(inventory, p, i, r) + 1
             /\ IF k # 0
                THEN inventory' = [inventory EXCEPT ![k].quantity = @ + 1]
                ELSE inventory' = Append(inventory,
                         [player_id |-> p, item_id |-> i, rarity |-> r,
                          quantity |-> 1])]_vars

\* the tier of the item ids the catches use: the number after the last
\* underscore, 1 when there is none
TierOf(item_id) ==
    CASE item_id = "fish_pond_1" -> 1
      [] item_id = "fish_pond_2" -> 2
      [] item_id = "fish_100000" -> 100000
      [] OTHER -> 1

\* fishXp as a natural number: 10 + 10 * tier + 5 * max(rarity - 1, 0)
FishXp(item_id, rarity) ==
    10 + 10 * TierOf(item_id) + 5 * (IF rarity > 1 THEN rarity - 1 ELSE 0)

\* C21: every catch_fish call by a player with a stats row raises the
\* lifetime counter total_fish_caught by exactly 1 and grants exactly
\* fishXp(item_id, rarity) XP through the levelling routine.
C21_CatchCountsAndGrantsFishXp ==
    [][last'.op = "catch_fish" /\ last'.player_id \in DOMAIN player_stats
       => LET before == player_stats[last'.player_id]
              after == player_stats'[last'.player_id]
          IN /\ after.total_fish_caught = before.total_fish_caught + 1
             /\ TotalXp(after) = TotalXp(before) + FishXp(last'.item_id, last'.rarity)]_vars

\* the stacks of a key, in scan order
StacksOf(inv, player_id, item_id, rarity) ==
    LET Matches(row) == IsStack(row, player_id, item_id, rarity)
    IN SelectSeq(inv, Matches)

\* C22: when add_to_inventory of q units to a key without a stack is followed
\* by remove_from_inventory of the same q units, the add has created exactly
\* ceil(q / capacity) stacks, all full except possibly the last, and the
\* remove leaves totalOwned = 0 and no stack of the key. (The key had no
\* stack before the add exactly when it holds q units after it.)
C22_AddThenRemoveLeavesNoStack ==
    [][/\ last.op = "add_to_inventory"
       /\ last.log # "panicked"
       /\ last'.op = "remove_from_inventory"
       /\ last'.player_id = last.player_id
       /\ last'.item_id = last.item_id
       /\ last'.rarity = last.rarity
       /\ last'.quantity = last.quantity
       /\ totalOwned(inventory, last.player_id, last.item_id, last.rarity) = last.quantity
       => LET q == last.quantity
              capacity == get_max_stack_size(last.item_id)
              made == StacksOf(inventory, last.player_id, last.item_id, last.rarity)
          IN /\ Len(made) = (q + capacity - 1) \div capacity
             /\ \A n \in 1..Len(made) :
                    made[n].quantity = IF n < Len(made) THEN capacity
                                       ELSE q - capacity * (Len(made) - 1)
             /\ StacksOf(inventory', last.player_id, last.item_id, last.rarity) = <<>>
             /\ totalOwned(inventory', last.player_id, last.item_id, last.rarity) = 0]_vars

\* 7 fish_pond_1 were added to the empty inventory, as stacks of 5 and 2, and
\* the removal of 7 has deleted both
C22_Witness ==
    /\ calls = 2
    /\ last.op = "remove_from_inventory"
    /\ last.item_id = "fish_pond_1"
    /\ last.quantity = 7
    /\ last.log = "Successfully removed"
    /\ inventory = <<>>

(***************************************************************************)
(* The three formulas on their own: each call applies one of them to an    *)
(* input and records the result as the amount of the call.                 *)
(***************************************************************************)
MaxFormulaCalls == 1

\* the levels the thresholds are computed for
MaxLevel == 58

\* every id of the price table, and one that is not in it
PricedItems ==
    {"fish_pond_1", "fish_pond_2", "fish_pond_3", "fish_pond_4",
     "fish_river_1", "fish_river_2", "fish_river_3", "fish_river_4",
     "fish_ocean_1", "fish_ocean_2", "fish_ocean_3", "fish_ocean_4",
     "fish_night_1", "fish_night_2", "fish_night_3", "fish_night_4",
     "pole_1", "pole_2", "pole_3", "pole_4",
     "lure_1", "lure_2", "lure_3", "lure_4", "driftwood"}

\* the rarities in use, one beyond them and the largest u8
PricedRarities == {0, 1, 2, 3, 4, 255}

\* ids with a tier, with a suffix that is no number, without an underscore,
\* with an empty suffix, and with a tier that parses but is large
FishXpItems == {"fish_pond_1", "fish_pond_2", "fish_pond", "total", "fish_", "fish_100000"}

InitFormulas == StartFrom(Boot, MaxFormulaCalls)

CalculateSellPrice ==
    \E i \in PricedItems, r \in PricedRarities :
        Call([NoCall EXCEPT !.op = "calculate_sell_price", !.item_id = i, !.rarity = r,
                            !.amount = calculate_sell_price(i, r)],
             [db |-> DB, log |-> ""])

CalculateXpForLevel ==
    \E level \in 0..MaxLevel :
        Call([NoCall EXCEPT !.op = "calculate_xp_for_level", !.quantity = level,
                            !.amount = calculate_xp_for_level(level)],
             [db |-> DB, log |-> ""])

CalculateFishXp ==
    \E i \in FishXpItems, r \in 0..3 :
        Call([NoCall EXCEPT !.op = "calculate_fish_xp", !.item_id = i, !.rarity = r,
                            !.amount = calculate_fish_xp(i, r)],
             [db |-> [DB EXCEPT !.overflowed = fish_xp_sum(i, r) > U64_PARSE_MAX],
              log |-> ""])

NextFormulas == CalculateSellPrice \/ CalculateXpForLevel \/ CalculateFishXp

SpecFormulas == InitFormulas /\ [][NextFormulas]_vars

\* C23: calculate_sell_price(item_id, rarity) is the base sell price of the
\* item (5 for an unknown id) times 1 for rarity 0 or 1, times 2 for rarity
\* 2, times 4 for rarity 3 and times 1 for any other rarity.
C23_SellPriceIsBaseTimesMultiplier ==
    last.op = "calculate_sell_price"
    => /\ last.rarity = 2 => last.amount = 2 * get_item_base_sell_price(last.item_id)
       /\ last.rarity = 3 => last.amount = 4 * get_item_base_sell_price(last.item_id)
       /\ last.rarity \notin {2, 3} => last.amount = get_item_base_sell_price(last.item_id)
       /\ last.item_id = "driftwood" /\ last.rarity \notin {2, 3} => last.amount = 5
       /\ last.item_id = "fish_ocean_3" /\ last.rarity = 1 => last.amount = 80

\* the price of a fish_ocean_3 with three stars was computed, and is 320
C23_Witness ==
    /\ last.op = "calculate_sell_price"
    /\ last.item_id = "fish_ocean_3"
    /\ last.rarity = 3
    /\ last.amount = 320

\* C24: calculate_xp_for_level(n) is 0 for n <= 1 and round(100 * n^1.5) for
\* n >= 2, which is positive; it is non-decreasing in n. (r is the rounded
\* square root of N = 10000 * n^3 exactly when r * (r - 1) < N <= r * (r + 1).)
C24_XpForLevelRoundedAndMonotone ==
    last.op = "calculate_xp_for_level"
    => LET n == last.quantity
           r == last.amount
           N == 10000 * n * n * n
       IN /\ n <= 1 => r = 0
          /\ n >= 2 => r > 0 /\ r * (r - 1) < N /\ N <= r * (r + 1)
          /\ \A m \in 0..n : calculate_xp_for_level(m) <= r

\* the threshold of level 3 was computed, and is 520
C24_Witness ==
    /\ last.op = "calculate_xp_for_level"
    /\ last.quantity = 3
    /\ last.amount = 520

\* C25: calculate_fish_xp(item_id, rarity) is 10 + 10 * tier
\* + 5 * max(rarity - 1, 0), where tier is the number after the last
\* underscore of item_id, and 1 when that suffix is not a number.
C25_FishXpFormula ==
    last.op = "calculate_fish_xp"
    => /\ last.log # "panicked"
       /\ last.amount = FishXp(last.item_id, last.rarity)

(***************************************************************************)
(* Players: Ann has joined, holds 200 gold, has walked away from her spawn *)
(* point and has the pole she owns equipped; two players join under any    *)
(* name and colour, leave, rename themselves, move, and trade the pole.    *)
(***************************************************************************)
MaxPlayerCalls == 3

PlayerBoard ==
    update_position(
        equip_pole(
            add_to_inventory(
                set_gold(join_world(Boot, "p1", "Ann", 1).db, "p1", 200).db,
                "p1", "pole_2", 0, 1).db,
            "p1", "pole_2").db,
        "p1", 5, 7).db

InitPlayer == StartFrom(PlayerBoard, MaxPlayerCalls)

JoinWorldAs ==
    \E p \in Players, name \in {"Ann", "Zed"}, color \in {1, 2} :
        Call([NoCall EXCEPT !.op = "join_world", !.player_id = p],
             join_world(DB, p, name, color))

UpdatePlayerName ==
    \E p \in Players, name \in {"Ann", "Zed"} :
        Call([NoCall EXCEPT !.op = "update_player_name", !.player_id = p],
             update_player_name(DB, p, name))

UpdatePosition ==
    \E p \in Players, at \in {<<5, 7>>, <<1700, 300>>} :
        Call([NoCall EXCEPT !.op = "update_position", !.player_id = p],
             update_position(DB, p, at[1], at[2]))

NextPlayer ==
    \/ JoinWorldAs \/ LeaveWorld \/ UpdatePlayerName \/ UpdatePosition
    \/ BuyPole \/ SellPole \/ UnequipPole

SpecPlayer == InitPlayer /\ [][NextPlayer]_vars

\* the fields of a Player row that joining and leaving keep
Kept(row) ==
    <<row.gold, row.name, row.color, row.equipped_pole_id, row.x, row.y>>

ActiveSessions(rows, player_id) ==
    {k \in 1..Len(rows) : rows[k].player_id = player_id /\ rows[k].is_active}

\* C26: no call removes a Player row. leave_world of an existing player
\* sets is_online to false and leaves the player no active session;
\* join_world of an existing player sets is_online to true and starts a
\* session at the call's timestamp; both keep the gold, name, colour,
\* equipped pole and position of every player and the whole inventory. A
\* player created by join_world or update_player_name has gold 0 and no
\* equipped pole.
C26_PlayerRowsKeptByJoinAndLeave ==
    [][LET p == last'.player_id
       IN /\ DOMAIN player \subseteq DOMAIN player'
          /\ last'.op \in {"join_world", "leave_world"} /\ p \in DOMAIN player
             => /\ DOMAIN player' = DOMAIN player
                /\ \A o \in DOMAIN player : Kept(player'[o]) = Kept(player[o])
                /\ \A o \in DOMAIN player \ {p} : player'[o] = player[o]
                /\ inventory' = inventory
                /\ player'[p].is_online = (last'.op = "join_world")
                /\ IF last'.op = "leave_world"
                   THEN ActiveSessions(player_session', p) = {}
                   ELSE /\ ActiveSessions(player_session', p) = {Len(player_session')}
                        /\ player_session'[Len(player_session')].started_at = calls
          /\ last'.op \in {"join_world", "update_player_name"} /\ p \notin DOMAIN player
             => /\ p \in DOMAIN player'
                /\ player'[p].gold = 0
                /\ player'[p].equipped_pole_id = None
                /\ inventory' = inventory]_vars

\* Ann left and came back under another name and colour: her row still has
\* her name, colour, gold, pole and position, and a row made by
\* update_player_name stands beside it
C26_Witness ==
    /\ last.op = "join_world" /\ last.player_id = "p1" /\ last.log = "reconnecting"
    /\ \E k \in 1..Len(game_event) :
          game_event[k].player_id = "p1" /\ game_event[k].event_type = "session_ended"
    /\ Kept(player["p1"]) = <<200, "Ann", 1, Some("pole_2"), 5, 7>>
    /\ player["p1"].is_online
    /\ "p2" \in DOMAIN player
    /\ ~player["p2"].is_online
    /\ player["p2"].color = 478268

\* C27: an add_to_inventory call of q units raises totalOwned of its
\* (player, item, rarity) by exactly q. Rows already there keep their place;
\* the matching ones only grow, up to the capacity, and every other row is
\* left as it was. Rows are appended only when every matching row already
\* there ends full; the appended rows match, all hold the capacity except
\* the last, which holds what remains. A call with q = 0 changes no table.
C27_AddToppingUpBeforeNewStacks ==
    [][last'.op = "add_to_inventory"
       => LET p == last'.player_id
              i == last'.item_id
              r == last'.rarity
              q == last'.quantity
              cap == get_max_stack_size(i)
              n == Len(inventory)
              m == Len(inventory')
          IN /\ totalOwned(inventory', p, i, r) = totalOwned(inventory, p, i, r) + q
             /\ m >= n
             /\ \A k \in 1..n :
                   IF IsStack(inventory[k], p, i, r)
                   THEN /\ inventory'[k] =
                              [inventory[k] EXCEPT !.quantity = inventory'[k].quantity]
                        /\ inventory'[k].quantity >= inventory[k].quantity
                        /\ inventory'[k].quantity <= cap
                        /\ m > n => inventory'[k].quantity = cap
                   ELSE inventory'[k] = inventory[k]
             /\ \A k \in (n + 1)..m :
                   /\ IsStack(inventory'[k], p, i, r)
                   /\ inventory'[k].quantity >= 1
                   /\ inventory'[k].quantity <= cap
                   /\ k < m => inventory'[k].quantity = cap
             /\ q = 0 => UNCHANGED tables
             /\ UNCHANGED <<player, quest, player_quest, player_stats, player_session,
                            game_event, fish_catch>>]_vars

\* 7 fish added to a stack of 3 beside another player's stack of 3: the
\* stack of 3 was filled to 5, a new stack took the other 5, and the other
\* player's stack was left alone
C27_Witness ==
    /\ last.op = "add_to_inventory" /\ last.player_id = "p1" /\ last.quantity = 7
    /\ Len(inventory) = 3
    /\ IsStack(inventory[1], "p1", "fish_pond_1", 1) /\ inventory[1].quantity = 5
    /\ IsStack(inventory[2], "p2", "fish_pond_1", 1) /\ inventory[2].quantity = 3
    /\ IsStack(inventory[3], "p1", "fish_pond_1", 1) /\ inventory[3].quantity = 5

\* C28: a remove_from_inventory call with 0 < quantity <= totalOwned lowers
\* totalOwned of its (player, item, rarity) by exactly quantity: the rows
\* left are the rows before the call in their order, without the matching
\* rows the call consumed whole and with at most one matching row reduced;
\* rows of other players, items and rarities are all kept as they were. A
\* call with quantity 0 succeeds and changes no table.
C28_RemoveTakesExactlyQuantity ==
    [][last'.op = "remove_from_inventory"
       => LET p == last'.player_id
              i == last'.item_id
              r == last'.rarity
              q == last'.quantity
              Other(row) == ~IsStack(row, p, i, r)
              Mine(row) == IsStack(row, p, i, r)
              before == SelectSeq(inventory, Mine)
              after == SelectSeq(inventory', Mine)
              gone == Len(before) - Len(after)
          IN /\ q = 0 => UNCHANGED tables /\ last'.log = ""
             /\ q > 0 /\ q <= totalOwned(inventory, p, i, r)
                => /\ last'.log = "Successfully removed"
                   /\ totalOwned(inventory', p, i, r)
                         = totalOwned(inventory, p, i, r) - q
                   /\ SelectSeq(inventory', Other) = SelectSeq(inventory, Other)
                   /\ gone >= 0
                   /\ Cardinality({k \in 1..Len(after) :
                                      after[k] # before[k + gone]}) <= 1
                   /\ \A k \in 1..Len(after) :
                         /\ after[k].quantity <= before[k + gone].quantity
                         /\ after[k].quantity >= 1]_vars

\* C29: a catch_fish call for (player, item, rarity) changes the progress
\* of each active PlayerQuest row of the player so that the counter keyed
\* by the item id is 1 higher, total is 1 higher and max_rarity is the
\* larger of its old value and the rarity; completed rows and the rows of
\* other players are left as they were.
C29_CatchAdvancesActiveRows ==
    [][last'.op = "catch_fish"
       => /\ Len(player_quest') = Len(player_quest)
          /\ \A k \in 1..Len(player_quest) :
                LET row == player_quest[k]
                    old == row.progress
                    new == player_quest'[k].progress
                    old_max == get_progress_count(old, "max_rarity")
                IN IF row.player_id = last'.player_id /\ row.status = "active"
                   THEN /\ get_progress_count(new, last'.item_id)
                              = get_progress_count(old, last'.item_id) + 1
                        /\ get_progress_count(new, "total")
                              = get_progress_count(old, "total") + 1
                        /\ get_progress_count(new, "max_rarity")
                              = IF last'.rarity > old_max THEN last'.rarity ELSE old_max
                        /\ player_quest'[k] = [row EXCEPT !.progress = new]
                   ELSE player_quest'[k] = row]_vars

(***************************************************************************)
(* The progress document of one quest row: from {} it is changed by        *)
(* set_progress_count alone, under the keys the engine writes (the item id *)
(* of a catch, which is any text the client sends, total and max_rarity).  *)
(***************************************************************************)
MaxProgressCalls == 3

ProgressKeys == {"fish_pond_1", "total", "max_rarity", ":1,"}

ProgressValues == {0, 1, 12, U32_MAX}

ProgressBoard == accept_quest(QuestBoard, "p1", "guild_1").db

InitProgress == StartFrom(ProgressBoard, MaxProgressCalls)

SetProgressCount ==
    \E k \in ProgressKeys, v \in ProgressValues :
        Call([NoCall EXCEPT !.op = "set_progress_count", !.player_id = "p1",
                            !.item_id = k, !.amount = v],
             [db |-> [DB EXCEPT !.player_quest[1].progress =
                                    set_progress_count(@, k, v)],
              log |-> ""])

NextProgress == SetProgressCount

SpecProgress == InitProgress /\ [][NextProgress]_vars

\* C30: after set_progress_count(doc, k, v) on a document built from {} by
\* set_progress_count alone, key k reads v and every other key reads what
\* it read before the write; a write into {} yields exactly {"k":v}, and
\* in {} every key reads as None, count 0.
C30_WriteThenReadRoundTrip ==
    [][last'.op = "set_progress_count"
       => LET doc == player_quest[1].progress
              written == player_quest'[1].progress
              k == last'.item_id
              v == last'.amount
          IN /\ extract_json_number(written, k) = Some(v)
             /\ get_progress_count(written, k) = v
             /\ \A j \in ProgressKeys \ {k} :
                   extract_json_number(written, j) = extract_json_number(doc, j)
             /\ doc = "{}"
                => /\ written = "{\"" \o k \o "\":" \o FormatNumber(v) \o "}"
                   /\ \A j \in ProgressKeys :
                         /\ extract_json_number(doc, j) = None
                         /\ get_progress_count(doc, j) = 0]_vars

\* C31: a sell_item call removes from its (player, item, rarity) key either
\* nothing or the quantity sold, never more than the player owned, and the
\* gold of a player with a row grows by the sell price times the quantity
\* removed; when the call before it was a sale of the same key that went
\* through, the two quantities together do not exceed what was owned
\* before the first.
C31_SellRemovesWhatItCredits ==
    [][last'.op = "sell_item"
       => LET p == last'.player_id
              i == last'.item_id
              r == last'.rarity
              owned == totalOwned(inventory, p, i, r)
              removed == owned - totalOwned(inventory', p, i, r)
              sold == last'.log = "sold"
              SameKey(call) == call.op = "sell_item" /\ call.player_id = p
                               /\ call.item_id = i /\ call.rarity = r
          IN /\ removed = (IF sold THEN last'.quantity ELSE 0)
             /\ removed <= owned
             /\ p \in DOMAIN player
                => player'[p].gold = player[p].gold + calculate_sell_price(i, r) * removed
             /\ SameKey(last) /\ last.log = "sold" /\ sold
                => last.quantity + last'.quantity <= owned + last.quantity]_vars

\* C32: in every state, a player who holds a row, active or completed, for
\* a quest that names a prerequisite also holds a completed row for the
\* prerequisite quest.
C32_HeldQuestHasCompletedPrerequisite ==
    \A k \in 1..Len(player_quest) :
        LET row == player_quest[k]
        IN /\ row.quest_id \in DOMAIN quest
           /\ IsSome(quest[row.quest_id].prerequisite_quest_id)
           => \E j \in 1..Len(player_quest) :
                  /\ player_quest[j].player_id = row.player_id
                  /\ player_quest[j].quest_id =
                         Unwrap(quest[row.quest_id].prerequisite_quest_id)
                  /\ player_quest[j].status = "completed"

(***************************************************************************)
(* A story quest under way: Ann has accepted guild_1, which asks for two   *)
(* fish; the quests of the board are accepted and completed and fish are   *)
(* caught, in any order.                                                   *)
(***************************************************************************)
MaxStoryCalls == 4

StoryBoard == accept_quest(QuestBoard, "p1", "guild_1").db

InitStory == StartFrom(StoryBoard, MaxStoryCalls)

NextStory == AcceptQuest \/ CompleteQuest \/ CatchFish

SpecStory == InitStory /\ [][NextStory]_vars

\* the quest_completed events of a player and a quest
Completions(events, player_id, quest_id) ==
    {k \in 1..Len(events) : /\ events[k].player_id = player_id
                            /\ events[k].event_type = "quest_completed"
                            /\ events[k].item_id = Some(quest_id)}

\* C33: per player and story quest complete_quest goes through at most
\* once, so the rewards of a story quest are granted to a player at most
\* once; a complete_quest call on a story quest the player has completed
\* changes no table, and neither does an accept_quest call on it.
C33_StoryQuestCompletesOnce ==
    [][\A p \in Players, q \in BoardQuests :
          quest[q].quest_type = "story"
          => /\ Cardinality(Completions(game_event', p, q)) <= 1
             /\ Cardinality(Completions(game_event', p, q))
                   > Cardinality(Completions(game_event, p, q))
                => /\ last'.op = "complete_quest"
                   /\ QuestStatus(player_quest, p, q) = "active"
                   /\ QuestStatus(player_quest', p, q) = "completed"
             /\ QuestStatus(player_quest, p, q) = "completed"
                /\ last'.op \in {"complete_quest", "accept_quest"}
                /\ last'.player_id = p /\ last'.quest_id = q
                => UNCHANGED tables]_vars

\* Ann, who had completed guild_1 and collected its 50 gold, called
\* complete_quest on it again and was turned away
C33_Witness ==
    /\ last.op = "complete_quest" /\ last.player_id = "p1" /\ last.quest_id = "guild_1"
    /\ last.log = "has no active quest"
    /\ QuestStatus(player_quest, "p1", "guild_1") = "completed"
    /\ Cardinality(Completions(game_event, "p1", "guild_1")) = 1
    /\ player["p1"].gold = 50

(***************************************************************************)
(* The quest board under administration: while players accept and         *)
(* complete quests and catch fish, quests are created, rewritten and       *)
(* deleted and the progress of a quest is reset.                           *)
(***************************************************************************)
MaxAdminCalls == 3

AdminQuests == {"guild_1", "gift", "ghost"}

InitAdmin == StartFrom(QuestBoard, MaxAdminCalls)

AdminCreateQuest ==
    \E q \in AdminQuests :
        Call([NoCall EXCEPT !.op = "admin_create_quest", !.quest_id = q],
             admin_create_quest(DB, q, "daily", None, "{}", "{\"gold\": 5}"))

AdminUpdateQuest ==
    \E q \in AdminQuests, prerequisite \in {None, Some("ghost")} :
        Call([NoCall EXCEPT !.op = "admin_update_quest", !.quest_id = q],
             admin_update_quest(DB, q, "story", prerequisite, "{}", "{\"gold\": 5}"))

AdminDeleteQuest ==
    \E q \in AdminQuests :
        Call([NoCall EXCEPT !.op = "admin_delete_quest", !.quest_id = q],
             admin_delete_quest(DB, q))

AdminResetQuestProgress ==
    \E q \in AdminQuests :
        Call([NoCall EXCEPT !.op = "admin_reset_quest_progress", !.quest_id = q],
             admin_reset_quest_progress(DB, q))

NextAdmin ==
    \/ AcceptQuest \/ CompleteQuest \/ CatchFish
    \/ AdminCreateQuest \/ AdminUpdateQuest \/ AdminDeleteQuest
    \/ AdminResetQuestProgress

SpecAdmin == InitAdmin /\ [][NextAdmin]_vars

\* C34: in every state, also after admin_delete_quest, admin_update_quest
\* and admin_reset_quest_progress, the quest id of every PlayerQuest row is
\* the id of a row of the quest table, and no complete_quest call has taken
\* the branch that logs a missing quest for an active row.
C34_QuestRowsReferenceQuests ==
    /\ \A k \in 1..Len(player_quest) : player_quest[k].quest_id \in DOMAIN quest
    /\ last.log # "not found but player had it active"

\* the quest gift was deleted after Ann had completed it: her row went
\* with it
C34_Witness ==
    /\ last.op = "admin_delete_quest" /\ last.quest_id = "gift"
    /\ last.log = "Deleted quest"
    /\ "gift" \notin DOMAIN quest
    /\ Completions(game_event, "p1", "gift") # {}
    /\ QuestStatus(player_quest, "p1", "gift") = "absent"

(***************************************************************************)
(* The purse: gold is set and credited directly, earned by selling stock   *)
(* and earned as the reward of a quest.                                    *)
(***************************************************************************)
MaxPurseCalls == 3

InitPurse == StartFrom(QuestBoard, MaxPurseCalls)

AddGold ==
    \E p \in Players, amount \in GoldAmounts :
        Call([NoCall EXCEPT !.op = "add_gold", !.player_id = p, !.amount = amount],
             add_gold(DB, p, amount))

NextPurse ==
    \/ SetGold \/ AddGold \/ StockInventory \/ SellItem
    \/ AcceptQuest \/ CompleteQuest

SpecPurse == InitPurse /\ [][NextPurse]_vars

\* C35: no add_gold, sell_item or complete_quest call leaves the gold of a
\* player smaller than it was before the call, and a sale that goes
\* through raises the seller's gold by the whole of unit price times
\* quantity.
C35_CreditNeverLowersGold ==
    [][last'.op \in {"add_gold", "sell_item", "complete_quest"}
       => /\ \A p \in DOMAIN player : player'[p].gold >= player[p].gold
          /\ last'.op = "sell_item" /\ last'.log = "sold"
             /\ last'.player_id \in DOMAIN player
             => player'[last'.player_id].gold - player[last'.player_id].gold
                   = calculate_sell_price(last'.item_id, last'.rarity) * last'.quantity]_vars

(***************************************************************************)
(* Stock that only grows: from an empty inventory items are added, fish    *)
(* are caught and items are bought by a player with 200 gold; nothing is   *)
(* removed, sold or granted.                                               *)
(***************************************************************************)
MaxStockCalls == 3

InitStock == StartFrom(GearBoard, MaxStockCalls)

NextStock == AddToInventory \/ CatchFish \/ BuyItem

SpecStock == InitStock /\ [][NextStock]_vars

\* the stacks of the key of a row that hold less than the capacity
PartialStacks(inv, row) ==
    {k \in 1..Len(inv) :
        /\ IsStack(inv[k], row.player_id, row.item_id, row.rarity)
        /\ inv[k].quantity < get_max_stack_size(row.item_id)}

\* C36: in every state reached from the empty inventory by add_to_inventory,
\* catch_fish and buy_item calls alone, each (player, item, rarity) key has
\* at most one stack that holds less than the capacity of the item.
C36_AtMostOnePartialStack ==
    \A k \in 1..Len(inventory) :
        Cardinality(PartialStacks(inventory, inventory[k])) <= 1

\* a stack of 3 grew to 4 by a catch and then took 7 more: two full stacks
\* and one stack of 1
C36_Witness ==
    /\ last.op = "add_to_inventory" /\ last.quantity = 7
    /\ Len(fish_catch) = 1
    /\ Len(inventory) = 3
    /\ \A k \in 1..3 : IsStack(inventory[k], "p1", "fish_pond_1", 1)
    /\ inventory[1].quantity = 5 /\ inventory[2].quantity = 5
    /\ inventory[3].quantity = 1
    /\ PartialStacks(inventory, inventory[1]) = {3}

\* the PlayerSession rows of a player
SessionsOf(rows, player_id) ==
    {k \in 1..Len(rows) : rows[k].player_id = player_id}

\* C37: in every state reached by join_world, leave_world, start_session
\* and end_session calls, total_sessions of each PlayerStats row is the
\* number of PlayerSession rows of its player.
C37_TotalSessionsCountsRows ==
    \A p \in DOMAIN player_stats :
        player_stats[p].total_sessions = Cardinality(SessionsOf(player_session, p))

\* Ann joined twice without leaving and then left: three calls, two
\* sessions, both closed, and two counted
C37_Witness ==
    /\ last.op = "leave_world" /\ last.player_id = "p1"
    /\ "p1" \in DOMAIN player_stats
    /\ player_stats["p1"].total_sessions = 2
    /\ Cardinality(SessionsOf(player_session, "p1")) = 2
    /\ \A k \in SessionsOf(player_session, "p1") : ~player_session[k].is_active

\* the durations of the closed sessions of a player, added up
RECURSIVE EndedSeconds(_, _)
EndedSeconds(rows, player_id) ==
    IF rows = <<>> THEN 0
    ELSE (IF Head(rows).player_id = player_id /\ ~Head(rows).is_active
          THEN Head(rows).duration_seconds ELSE 0)
         + EndedSeconds(Tail(rows), player_id)

\* C38: in every state total_playtime_seconds of a player is the sum of
\* duration_seconds over the player's sessions that are no longer active,
\* whichever of end_session, leave_world and start_session closed them.
C38_PlaytimeSumsEndedSessions ==
    \A p \in DOMAIN player_stats :
        player_stats[p].total_playtime_seconds = EndedSeconds(player_session, p)

\* the XP a call hands to add_xp_internal
XpGranted(call) ==
    CASE call.op = "add_xp" -> call.amount
      [] call.op = "catch_fish" -> calculate_fish_xp(call.item_id, call.rarity)
      [] OTHER -> QuestXp(call.quest_id)

\* C39: the level of a player never decreases, and every XP grant ends its
\* level-up loop after finitely many iterations, also for a row that
\* starts at level 0 with threshold 0: the loop ran once per level gained,
\* each iteration subtracted the threshold of the next level, which is
\* strictly positive, and the last one (hence each one, as the thresholds
\* do not decrease) found it covered by the XP left, so the iterations are
\* at most as many as the XP the loop started with, and the XP left at the
\* end is what the loop started with less the thresholds subtracted.
C39_LevelUpLoopTerminates ==
    [][\A p \in DOMAIN player_stats :
          /\ p \in DOMAIN player_stats'
          /\ player_stats'[p].level >= player_stats[p].level
          /\ GrantedXp(last') /\ last'.player_id = p
             => LET old == player_stats[p]
                    new == player_stats'[p]
                    base == IF old.level = 0 THEN 1 ELSE old.level
                    xp == WrapU64(old.xp + XpGranted(last'))
                    n == new.level - base
                    Spent(level) == XpSpentOnLevels(level) - XpSpentOnLevels(base)
                IN /\ n >= 0
                   /\ n <= xp
                   /\ \A j \in 1..n : calculate_xp_for_level(base + j) > 0
                   /\ n > 0 => xp - Spent(new.level - 1)
                                   >= calculate_xp_for_level(new.level)
                   /\ new.xp = xp - Spent(new.level)
                   /\ new.xp >= 0]_vars

\* 1000 XP granted to the row that started at level 0 with threshold 0:
\* two iterations, 283 and 520 subtracted, level 3 with 197 XP left
C39_Witness ==
    /\ last.op = "add_xp" /\ last.player_id = "p2" /\ last.amount = 1000
    /\ calls = 1
    /\ player_stats["p2"].level = 3
    /\ player_stats["p2"].xp = 197
    /\ player_stats["p2"].xp_to_next_level = 800

====
